---- MODULE Spec2Model ----
(***************************************************************************)
(* EZ-Coach: the remote-environment protocol.                              *)
(*                                                                         *)
(* Text on the wire is modelled as a sequence of tokens.  A token is a     *)
(* brace, a key prefix ("k" stands for the text "k": that must be followed *)
(* by a value), a scalar ("1"), or an atom that stands for one complete    *)
(* object member (for instance "stopped" stands for "type":"stopped").     *)
(* A chunk is what one transport receive returns: a sequence of tokens.    *)
(***************************************************************************)
EXTENDS Integers, Sequences, FiniteSets, TLC

\* ------------------------------------------------------------------ bounds
\* Longest message sequence fed to the framer.
MaxMsgs == 3
\* Worker threads that may be alive at the same time.
MaxWorkers == 2
\* Messages the remote process sends during one run.
MaxRemote == 3
\* The same, in the runs where a second worker thread may exist.
MaxRaceRemote == 2

VARIABLES
    \* Communicator (communication.py, BaseCommunication.__init__)
    cConnected,     \* _connected
    cRunning,       \* _running
    queue,          \* _messages: chunks put by the worker, FIFO
    partial,        \* _last_partial_message (<<>> stands for None)
    wpc,            \* position of each receive-worker thread
    \* Transport
    sock,           \* "unconnected", "open", "remoteClosed", "dead"
    wire,           \* chunks sent by the remote and not yet received
    outbox,         \* protocol messages written to the transport by the latest operation
    rest,           \* tokens of the stream the remote has not sent yet
    budget,         \* messages the remote may still send
    rSeen,          \* outgoing message types the remote has received
    \* RemoteEnvironment (enviroment.py, BaseEnvironment.__init__)
    eConnected,     \* _connected
    eRunning,       \* _running
    statesReady,    \* _states_ready
    states,         \* _states ("None" or the tag of the installed batch)
    manifest,       \* _manifest ("None" or the tag of the parsed manifest)
    \* Orchestration thread
    pc,             \* operation in progress: "idle", "connect", "reset", "act", "stop", "get"
    messages,       \* local list of get_messages() while the call is in progress
    result,         \* how the last operation ended
    \* History (not program state)
    stream,         \* the message sequence the remote was asked to send
    delivered,      \* concatenation of the lists get_messages() has returned
    returned,       \* the list the last get_messages() returned
    hist,           \* record of facts about the run, see HistInit
    \* Runner and its distributor (core.py, distributor.py)
    dist,           \* the distributor: its agents, their running states, its recorder
    run,            \* position and locals of Runner.train() / Runner.play()
    calls,          \* history: callbacks made by the latest distributor operation
    \* Schema (range.py, value.py)
    schema          \* the schema object a caller has built, and the result of its last call

vars == <<cConnected, cRunning, queue, partial, wpc, sock, wire, outbox, rest, budget, rSeen,
          eConnected, eRunning, statesReady, states, manifest,
          pc, messages, result, stream, delivered, returned, hist, dist, run, calls, schema>>

commVars == <<cConnected, cRunning, queue, partial, wpc>>
envVars == <<eConnected, eRunning, statesReady, states, manifest>>
runVars == <<dist, run, calls>>

\* No Runner has been constructed: the environment is driven directly.
NoRunner ==
    /\ dist = [kind |-> "none"]
    /\ run = [rpc |-> "none"]
    /\ calls = <<>>

\* ------------------------------------------------------------------ JSON text
Atoms == {"a", "b", "manifest1", "manifest2", "state1", "state2", "stopped", "disconnected",
          "states"}

Msg(atom) == <<"{", atom, "}">>

\* communication.py:48
DISCONNECTED_MESSAGE_JSON == Msg("disconnected")

RECURSIVE json_loads_ok(_)
\* json.loads(s) succeeds: s is exactly one JSON value.
\*   value  ::= "1" | "{" "}" | "{" atom "}" | "{" "k" value "}"
json_loads_ok(s) ==
    \/ s = <<"1">>
    \/ /\ Len(s) >= 2
       /\ s[1] = "{"
       /\ s[Len(s)] = "}"
       /\ LET body == SubSeq(s, 2, Len(s) - 1)
          IN  \/ body = <<>>
              \/ Len(body) = 1 /\ body[1] \in Atoms
              \/ Len(body) >= 2 /\ body[1] = "k" /\ json_loads_ok(Tail(body))

RECURSIVE str_split(_)
\* str.split('}{'): the pieces between the occurrences of a "}" directly followed by "{".
str_split(s) ==
    LET hits == {i \in 1..(Len(s) - 1) : s[i] = "}" /\ s[i + 1] = "{"}
    IN  IF hits = {} THEN <<s>>
        ELSE LET i == CHOOSE j \in hits : \A h \in hits : j <= h
             IN  <<SubSeq(s, 1, i - 1)>> \o str_split(SubSeq(s, i + 2, Len(s)))

\* json_utils.py:8-22.  jsons[1:-1] is assigned the list built from jsons[1:-2].
split_jsons(json_str) ==
    LET jsons == str_split(json_str)
        n == Len(jsons)
    IN  IF n = 1 THEN <<json_str>>
        ELSE <<jsons[1] \o <<"}">>>>
             \o [i \in 1..(n - 3) |-> <<"{">> \o jsons[i + 1] \o <<"}">>]
             \o << <<"{">> \o jsons[n] >>

RECURSIVE parse_fragments(_, _, _)
\* communication.py:167-172: the loop over the fragments; st = [messages, partial].
parse_fragments(frags, i, st) ==
    IF i > Len(frags) THEN st
    ELSE parse_fragments(frags, i + 1,
            IF json_loads_ok(frags[i])
            THEN [st EXCEPT !.messages = Append(@, frags[i])]
            ELSE [st EXCEPT !.partial = frags[i]])

\* communication.py:158-172: one iteration of the loop of get_messages on raw_message.
get_messages_item(raw_message, st) ==
    IF json_loads_ok(raw_message)
    THEN [st EXCEPT !.messages = Append(@, raw_message)]
    ELSE parse_fragments(split_jsons(st.partial \o raw_message), 1,
                         [st EXCEPT !.partial = <<>>])

\* A get_messages() that returns as soon as the queue is empty.
get_messages_done_any(q, msgs) == q = <<>>

\* communication.py:176: the loop of get_messages ends.
get_messages_done(q, msgs) == q = <<>> /\ Len(msgs) > 0

\* ------------------------------------------------------------------ framer streams
\* The messages of the framer streams: an empty object and an object with one member.
FramerMsgs == {<<"{", "}">>, Msg("a")}

RECURSIVE Flatten(_)
Flatten(ss) == IF ss = <<>> THEN <<>> ELSE Head(ss) \o Flatten(Tail(ss))

SeqsUpTo(S, n) == UNION {[1..k -> S] : k \in 1..n}

IsPrefix(s, t) == Len(s) <= Len(t) /\ SubSeq(t, 1, Len(s)) = s

\* ------------------------------------------------------------------ history
\* caught:     the worker threads that have caught Disconnected in update()
\* discPut:    disconnected messages put on the queue since the last connection.connect()
\* taken:      the chunks the get_messages() call in progress has taken from the queue
\* partial0:   _last_partial_message when the call in progress began
\* installed:  _parse_states has installed a batch during the latest operation
\* restarted:  the latest operation is a reset() called while an episode was running
\* num_state_messages: the state messages counted by _parse_messages in the latest drain
\*             of the latest operation
\* disconnected: _parse_disconnected has run and connect() has not been called since
\* last_sent:  the type of the latest message written to the transport ("none": none yet)
HistInit == [caught |-> {}, discPut |-> 0, installed |-> FALSE, restarted |-> FALSE,
             taken |-> <<>>, partial0 |-> <<>>, num_state_messages |-> 0,
             disconnected |-> FALSE, last_sent |-> "none"]

\* ------------------------------------------------------------------ receive worker
Workers == 1..MaxWorkers

\* communication.py:93 and 126-130: the loop test of _run, the test of update(), and
\* the call of connection.recv().  A thread whose loop test fails ends.
WorkerTop(w) ==
    /\ wpc[w] = "top"
    /\ \/ /\ ~cRunning
          /\ wpc' = [wpc EXCEPT ![w] = "none"]
          /\ hist' = [hist EXCEPT !.caught = @ \ {w}]
       \/ /\ cRunning
          /\ cConnected
          /\ wpc' = [wpc EXCEPT ![w] = "recv"]
          /\ UNCHANGED hist
    /\ UNCHANGED <<cConnected, cRunning, queue, partial, sock, wire, outbox, rest, budget,
                   rSeen, envVars, pc, messages, result, stream, delivered, returned>>
    /\ UNCHANGED <<runVars, schema>>

\* communication.py:130 and 135: recv() returns a chunk, which is put on the queue.
WorkerRecvData(w) ==
    /\ wpc[w] = "recv"
    /\ sock \in {"open", "remoteClosed"}
    /\ wire # <<>>
    /\ queue' = Append(queue, Head(wire))
    /\ wire' = Tail(wire)
    /\ wpc' = [wpc EXCEPT ![w] = "top"]
    /\ UNCHANGED <<cConnected, cRunning, partial, sock, outbox, rest, budget, rSeen, envVars,
                   pc, messages, result, stream, delivered, returned, hist>>
    /\ UNCHANGED <<runVars, schema>>

\* communication.py:283-285 (and 182-186): Communicator._report_disconnected.
report_disconnected(q) == Append(q, DISCONNECTED_MESSAGE_JSON)

\* communication.py:131-132 with communication.py:329-341: recv() raises Disconnected
\* once the remote has closed and every chunk it sent has been received.
WorkerRecvDisconnected(w) ==
    /\ wpc[w] = "recv"
    /\ sock = "remoteClosed"
    /\ wire = <<>>
    /\ cConnected' = FALSE
    /\ queue' = report_disconnected(queue)
    /\ wpc' = [wpc EXCEPT ![w] = "except"]
    /\ hist' = [hist EXCEPT !.caught = @ \cup {w},
                            !.discPut = @ + (Len(queue') - Len(queue))]
    /\ UNCHANGED <<cRunning, partial, sock, wire, outbox, rest, budget, rSeen, envVars,
                   pc, messages, result, stream, delivered, returned>>
    /\ UNCHANGED <<runVars, schema>>

\* communication.py:133: self._running = False, then update() returns to the loop test.
WorkerStopRunning(w) ==
    /\ wpc[w] = "except"
    /\ cRunning' = FALSE
    /\ wpc' = [wpc EXCEPT ![w] = "top"]
    /\ UNCHANGED <<cConnected, queue, partial, sock, wire, outbox, rest, budget, rSeen,
                   envVars, pc, messages, result, stream, delivered, returned, hist>>
    /\ UNCHANGED <<runVars, schema>>

\* ------------------------------------------------------------------ framer
\* The transport hands the next tokens of the stream to the receiver as one chunk.
FramerChop ==
    /\ rest # <<>>
    /\ wire = <<>>
    /\ \E n \in 1..Len(rest) :
          /\ wire' = <<SubSeq(rest, 1, n)>>
          /\ rest' = SubSeq(rest, n + 1, Len(rest))
    /\ UNCHANGED <<commVars, sock, outbox, budget, rSeen, envVars, pc, messages, result,
                   stream, delivered, returned, hist>>
    /\ UNCHANGED <<runVars, schema>>

\* communication.py:148-180: one iteration of get_messages(), called in a loop by a
\* consumer that does nothing else.
GetMessages ==
    /\ pc = "get"
    /\ queue # <<>>
    /\ LET st == get_messages_item(Head(queue), [messages |-> messages, partial |-> partial])
       IN  /\ queue' = Tail(queue)
           /\ partial' = st.partial
           /\ IF get_messages_done(queue', st.messages)
              THEN /\ messages' = <<>>
                   /\ returned' = st.messages
                   /\ delivered' = delivered \o st.messages
                   /\ hist' = [hist EXCEPT !.taken = <<>>, !.partial0 = st.partial]
              ELSE /\ messages' = st.messages
                   /\ hist' = [hist EXCEPT !.taken = Append(@, Head(queue))]
                   /\ UNCHANGED <<returned, delivered>>
    /\ UNCHANGED <<cConnected, cRunning, wpc, sock, wire, outbox, rest, budget, rSeen,
                   envVars, pc, result, stream>>
    /\ UNCHANGED <<runVars, schema>>

FramerInit ==
    /\ cConnected = TRUE
    /\ cRunning = TRUE
    /\ queue = <<>>
    /\ partial = <<>>
    /\ wpc = [w \in Workers |-> IF w = 1 THEN "top" ELSE "none"]
    /\ sock = "open"
    /\ wire = <<>>
    /\ outbox = <<>>
    /\ stream \in SeqsUpTo(FramerMsgs, MaxMsgs)
    /\ rest = Flatten(stream)
    /\ budget = 0
    /\ rSeen = {}
    /\ eConnected = FALSE
    /\ eRunning = FALSE
    /\ statesReady = FALSE
    /\ states = "None"
    /\ manifest = "None"
    /\ pc = "get"
    /\ messages = <<>>
    /\ result = "none"
    /\ delivered = <<>>
    /\ returned = <<>>
    /\ hist = HistInit
    /\ NoRunner
    /\ schema = [op |-> "none"]

FramerNext ==
    \/ FramerChop
    \/ \E w \in Workers : WorkerTop(w)
    \/ \E w \in Workers : WorkerRecvData(w)
    \/ GetMessages

SpecFramer == FramerInit /\ [][FramerNext]_vars

\* C1: every message sequence, however it is cut into chunks, comes out of the
\* successive get_messages() calls unchanged: what has been returned so far is a prefix
\* of the sequence sent, and once every chunk has been consumed it is the whole sequence.
FramerRoundTrip ==
    /\ IsPrefix(delivered \o messages, stream)
    /\ (rest = <<>> /\ wire = <<>> /\ queue = <<>> /\ wpc[1] = "top") => delivered = stream

\* ------------------------------------------------------------------ schema and manifest
\* An action value: its Python type and its number (None is [t |-> "NoneType", v |-> 0]).
IntAction(n) == [t |-> "int", v |-> n]
FloatAction(n) == [t |-> "float", v |-> n]
NoAction == [t |-> "NoneType", v |-> 0]

\* The manifests the remote may announce: "manifest1" is a one-player game whose action
\* is IntValue(Range(0, 1)); "manifest2" a game for one or two players whose action is
\* IntValue(Range(0, 2)).
ManifestTags == {"manifest1", "manifest2"}
StateTags == {"state1", "state2"}
possible_players(m) == IF m = "manifest1" THEN <<1>> ELSE <<1, 2>>
actions_range(m) == IF m = "manifest1" THEN [min |-> 0, max |-> 1] ELSE [min |-> 0, max |-> 2]

\* enviroment.py:363: the running flags of a batch.  In the batch "state1" the episode
\* is running for every agent, in "state2" it has ended for every agent.
batch_running(batch) == batch = "state1"

\* enviroment.py:191-198: obtain_states
obtain_states(e) == e.states

\* range.py:77-84: Range.contains
Range_contains(r, value) == r.min <= value /\ value <= r.max

\* value.py:412-416: _SingleValue.contains for IntValue (bool is a subclass of int)
IntValue_contains(r, action) ==
    /\ action.t \in {"int", "bool"}
    /\ Range_contains(r, action.v)

\* A _check_actions that takes None for an action outside the definition.
check_actions_strict(m, actions) ==
    \A i \in 1..Len(actions) : IntValue_contains(actions_range(m), actions[i])

\* A _check_actions that accepts every action list.
check_actions_any(m, actions) == TRUE

\* enviroment.py:181-189: _check_actions passes (no ValueError).
check_actions(m, actions) ==
    \A i \in 1..Len(actions) :
        IntValue_contains(actions_range(m), actions[i]) \/ actions[i] = NoAction

\* ------------------------------------------------------------------ environment
EnvRec == [connected |-> eConnected, running |-> eRunning, ready |-> statesReady,
           states |-> states, manifest |-> manifest]

\* enviroment.py:200-207: the states_ready property
states_ready(e) == e.ready /\ e.states # "None"

\* Type tags that communication.py:38-45 (IncomingMessageTypes) does not list, which a
\* remote may send all the same: the tag of a message is any string.
OtherTags == {"states"}

\* enviroment.py:309: message[MessageAttributes.TYPE]
message_type(m) ==
    IF Len(m) = 3 /\ m[1] = "{" /\ m[3] = "}"
    THEN IF m[2] \in ManifestTags THEN "manifest"
         ELSE IF m[2] \in StateTags THEN "state"
         ELSE IF m[2] \in {"stopped", "disconnected"} \cup OtherTags THEN m[2]
         ELSE "KeyError"
    ELSE "KeyError"

\* A _parse_manifest that marks the environment connected and keeps no manifest.
parse_manifest_flag(e, m) == [e EXCEPT !.connected = TRUE]

\* enviroment.py:325-342: _parse_manifest
parse_manifest(e, m) == [e EXCEPT !.manifest = m[2], !.connected = TRUE]

\* enviroment.py:344-352: _parse_disconnected (raises Disconnected)
parse_disconnected(e, m) == [e EXCEPT !.connected = FALSE]

\* enviroment.py:354-368: _parse_states
parse_states(e, m) == [e EXCEPT !.states = m[2], !.ready = TRUE]

\* enviroment.py:315: getattr(self, '_parse_' + message_type): RemoteEnvironment has
\* _parse_manifest, _parse_disconnected and _parse_states, and no _parse_stopped.
handler_exists(type) == type \in {"manifest", "disconnected", "states"}

RECURSIVE dispatch(_, _, _)
\* enviroment.py:305-316: the loop of _parse_messages;
\* r = [env, stateMsg, num_state_messages, exc].
dispatch(msgs, i, r) ==
    IF i > Len(msgs) \/ r.exc # "none" THEN r
    ELSE LET m == msgs[i]
             type == message_type(m)
         IN  dispatch(msgs, i + 1,
                IF type = "KeyError" THEN [r EXCEPT !.exc = "KeyError"]
                ELSE IF type = "state"
                THEN [r EXCEPT !.stateMsg = m, !.num_state_messages = @ + 1]
                ELSE IF ~handler_exists(type) THEN [r EXCEPT !.exc = "AttributeError"]
                ELSE IF type = "manifest" THEN [r EXCEPT !.env = parse_manifest(@, m)]
                ELSE IF type = "states"
                THEN IF r.env.manifest = "None" THEN [r EXCEPT !.exc = "AttributeError"]
                     ELSE [r EXCEPT !.env = parse_states(@, m)]
                ELSE [r EXCEPT !.env = parse_disconnected(@, m), !.exc = "Disconnected"])

\* A _parse_messages that installs the first state message of the list, not the last.
parse_messages_first_state(msgs, e) ==
    LET r == dispatch(msgs, 1, [env |-> e, stateMsg |-> <<>>, num_state_messages |-> 0,
                               exc |-> "none"])
        S == {i \in 1..Len(msgs) : message_type(msgs[i]) = "state"}
    IN  IF r.exc # "none" \/ r.stateMsg = <<>> THEN r
        ELSE IF r.env.manifest = "None" THEN [r EXCEPT !.exc = "AttributeError"]
        ELSE [r EXCEPT !.env = parse_states(@, msgs[CHOOSE i \in S : \A j \in S : i <= j])]

\* enviroment.py:299-323: _parse_messages; the result is
\* [env, stateMsg, num_state_messages, exc].
parse_messages(msgs, e) ==
    LET r == dispatch(msgs, 1, [env |-> e, stateMsg |-> <<>>, num_state_messages |-> 0,
                               exc |-> "none"])
    IN  IF r.exc # "none" \/ r.stateMsg = <<>> THEN r
        ELSE IF r.env.manifest = "None" THEN [r EXCEPT !.exc = "AttributeError"]
        ELSE [r EXCEPT !.env = parse_states(@, r.stateMsg)]

\* A reset() that keeps the batch of the episode before.
reset_keep_states(e) == [e EXCEPT !.running = FALSE]

\* A reset() that forgets the manifest as well.
reset_clear_all(e) == [e EXCEPT !.running = FALSE, !.states = "None", !.manifest = "None"]

\* enviroment.py:267-268: reset() forgets the running episode and its batch.
reset_clear(e) == [e EXCEPT !.running = FALSE, !.states = "None"]

\* An act() that leaves the batch marked as ready.
act_keep_ready(e) == e

\* enviroment.py:279: act() marks the batch as consumed.
act_clear(e) == [e EXCEPT !.ready = FALSE]

\* An act() that does not wait for the next batch.
keeps_waiting_no_act(op, e) ==
    IF op = "connect" THEN ~e.connected
    ELSE IF op = "stop" THEN e.running
    ELSE op = "reset" /\ ~states_ready(e)

\* enviroment.py:258, 271, 282, 289: the test of the waiting loop of each operation.
keeps_waiting(op, e) ==
    IF op = "connect" THEN ~e.connected
    ELSE IF op = "stop" THEN e.running
    ELSE ~states_ready(e)

\* enviroment.py:273-274: the else branch of the loop of reset()
on_return(op, e) == IF op = "reset" THEN [e EXCEPT !.running = TRUE] ELSE e

\* An _assert_connected that always passes.
assert_always == TRUE

\* communication.py:188-192: _assert_connected passes.
assert_connected == cConnected

\* communication.py:250, 261-263, 270, 279-280: the outgoing messages
connect_message == [type |-> "connect", players |-> 0, options |-> "None", actions |-> <<>>]
start_message(players, options) ==
    [type |-> "start", players |-> players, options |-> options, actions |-> <<>>]
stop_message == [type |-> "stop", players |-> 0, options |-> "None", actions |-> <<>>]
action_message(actions) ==
    [type |-> "action", players |-> 0, options |-> "None", actions |-> actions]

\* communication.py:352 (TCPConnection.send): the outcomes of writing to the transport.
\* A write to a connection the remote has closed may be accepted by the local stack or
\* fail with an OSError; a write to a socket that was never created fails.
send_outcomes == IF sock = "open" THEN {"ok"}
                 ELSE IF sock = "remoteClosed" THEN {"ok", "OSError"}
                 ELSE {"AttributeError"}

SetEnv(e) ==
    /\ eConnected' = e.connected
    /\ eRunning' = e.running
    /\ statesReady' = e.ready
    /\ states' = e.states
    /\ manifest' = e.manifest

\* An operation ends: normally ("ok") or with the named exception.
Ends(op, how) ==
    /\ pc' = "idle"
    /\ result' = <<op, how>>

\* communication.py:75-86: start().  W is the set of thread slots in use: the new
\* thread takes the first free one.
Comm_start(W) ==
    IF cRunning
    THEN UNCHANGED <<cRunning, wpc>>
    ELSE /\ cRunning' = TRUE
         /\ \E w \in W :
               /\ wpc[w] = "none"
               /\ \A v \in W : v < w => wpc[v] # "none"
               /\ wpc' = [wpc EXCEPT ![w] = "top"]

\* enviroment.py:249-261: connect() up to its waiting loop, with
\* communication.py:248-251 and 103-109 (Communicator.connect) and 309-316
\* (TCPConnection.connect, which makes a new socket).
Env_connect(W) ==
    /\ pc = "idle"
    /\ Comm_start(W)
    /\ IF eConnected
       THEN /\ Ends("connect", "ok")
            /\ outbox' = <<>>
            /\ hist' = [hist EXCEPT !.installed = FALSE, !.num_state_messages = 0,
                                    !.restarted = FALSE, !.disconnected = FALSE]
            /\ UNCHANGED <<cConnected, sock, wire, rSeen>>
       ELSE /\ sock' = "open"
            /\ wire' = <<>>
            /\ cConnected' = TRUE
            /\ outbox' = <<connect_message>>
            /\ rSeen' = {"connect"}
            /\ hist' = [hist EXCEPT !.discPut = 0, !.installed = FALSE,
                                    !.num_state_messages = 0, !.restarted = FALSE,
                                    !.disconnected = FALSE, !.last_sent = "connect"]
            /\ pc' = "connect"
            /\ result' = <<"connect", "running">>
    /\ UNCHANGED <<queue, partial, rest, budget, envVars, messages, stream, delivered,
                   returned>>

\* enviroment.py:263-275: reset() up to its waiting loop, with communication.py:253-264.
Env_reset(num_players, options) ==
    /\ pc = "idle"
    /\ IF num_players = 0 /\ manifest = "None"
       THEN /\ Ends("reset", "AttributeError")
            /\ outbox' = <<>>
            /\ UNCHANGED <<envVars, rSeen>>
       ELSE LET n == IF num_players = 0 THEN possible_players(manifest)[1] ELSE num_players
                e == reset_clear(EnvRec)
            IN  IF ~assert_connected
                THEN /\ Ends("reset", "AssertionError")
                     /\ outbox' = <<>>
                     /\ SetEnv(e)
                     /\ UNCHANGED rSeen
                ELSE \E out \in send_outcomes :
                       IF out # "ok"
                       THEN /\ Ends("reset", out)
                            /\ outbox' = <<>>
                            /\ SetEnv(e)
                            /\ UNCHANGED rSeen
                       ELSE /\ outbox' = <<start_message(n, options)>>
                            /\ rSeen' = IF sock = "open" THEN rSeen \cup {"start"} ELSE rSeen
                            /\ IF keeps_waiting("reset", e)
                               THEN /\ SetEnv(e)
                                    /\ pc' = "reset"
                                    /\ result' = <<"reset", "running">>
                               ELSE /\ SetEnv(on_return("reset", e))
                                    /\ pc' = "idle"
                                    /\ result' = <<"reset", "ok">>
    /\ hist' = [hist EXCEPT !.installed = FALSE, !.num_state_messages = 0,
                            !.restarted = eRunning,
                            !.last_sent = IF outbox' # <<>> THEN "start" ELSE @]
    /\ UNCHANGED <<commVars, sock, wire, rest, budget, messages, stream, delivered, returned>>

\* enviroment.py:277-285: act() up to its waiting loop, with communication.py:273-281.
Env_act(actions) ==
    /\ pc = "idle"
    /\ LET e == act_clear(EnvRec)
       IN  /\ IF manifest = "None"
              THEN /\ Ends("act", "AttributeError")
                   /\ outbox' = <<>>
                   /\ UNCHANGED rSeen
              ELSE IF ~check_actions(manifest, actions)
              THEN /\ Ends("act", "ValueError")
                   /\ outbox' = <<>>
                   /\ UNCHANGED rSeen
              ELSE IF ~assert_connected
              THEN /\ Ends("act", "AssertionError")
                   /\ outbox' = <<>>
                   /\ UNCHANGED rSeen
              ELSE \E out \in send_outcomes :
                     IF out # "ok"
                     THEN /\ Ends("act", out)
                          /\ outbox' = <<>>
                          /\ UNCHANGED rSeen
                     ELSE /\ outbox' = <<action_message(actions)>>
                          /\ UNCHANGED rSeen
                          /\ IF keeps_waiting("act", e)
                             THEN /\ pc' = "act"
                                  /\ result' = <<"act", "running">>
                             ELSE /\ pc' = "idle"
                                  /\ result' = <<"act", "ok">>
           /\ SetEnv(e)
    /\ hist' = [hist EXCEPT !.installed = FALSE, !.num_state_messages = 0, !.restarted = FALSE,
                            !.last_sent = IF outbox' # <<>> THEN "action" ELSE @]
    /\ UNCHANGED <<commVars, sock, wire, rest, budget, messages, stream, delivered, returned>>

\* enviroment.py:287-290: stop() up to its waiting loop, with communication.py:266-271
\* (send_stop writes to the connection without _assert_connected).
Env_stop ==
    /\ pc = "idle"
    /\ \E out \in send_outcomes :
          IF out # "ok"
          THEN /\ Ends("stop", out)
               /\ outbox' = <<>>
               /\ UNCHANGED rSeen
          ELSE /\ outbox' = <<stop_message>>
               /\ rSeen' = IF sock = "open" THEN rSeen \cup {"stop"} ELSE rSeen
               /\ IF keeps_waiting("stop", EnvRec)
                  THEN /\ pc' = "stop"
                       /\ result' = <<"stop", "running">>
                  ELSE /\ pc' = "idle"
                       /\ result' = <<"stop", "ok">>
    /\ hist' = [hist EXCEPT !.installed = FALSE, !.num_state_messages = 0, !.restarted = FALSE,
                            !.last_sent = IF outbox' # <<>> THEN "stop" ELSE @]
    /\ UNCHANGED <<commVars, sock, wire, rest, budget, envVars, messages, stream, delivered,
                   returned>>

\* enviroment.py:292-297: _update() inside the waiting loop of the operation in progress:
\* one iteration of the loop of get_messages() and, when get_messages() returns,
\* _parse_messages() and the test of the waiting loop.
Env_update ==
    /\ pc \in {"connect", "reset", "act", "stop"}
    /\ queue # <<>>
    /\ LET st == get_messages_item(Head(queue), [messages |-> messages, partial |-> partial])
       IN  /\ queue' = Tail(queue)
           /\ partial' = st.partial
           /\ IF ~get_messages_done(queue', st.messages)
              THEN /\ messages' = st.messages
                   /\ UNCHANGED <<envVars, pc, result, hist>>
              ELSE LET r == parse_messages(st.messages, EnvRec)
                   IN  /\ messages' = <<>>
                       /\ hist' = [hist EXCEPT !.installed =
                                       @ \/ (r.exc = "none" /\ r.stateMsg # <<>>),
                                                !.num_state_messages = r.num_state_messages,
                                                !.disconnected = @ \/ r.exc = "Disconnected"]
                       /\ IF r.exc # "none"
                          THEN /\ SetEnv(r.env)
                               /\ Ends(pc, r.exc)
                          ELSE IF keeps_waiting(pc, r.env)
                          THEN /\ SetEnv(r.env)
                               /\ UNCHANGED <<pc, result>>
                          ELSE /\ SetEnv(on_return(pc, r.env))
                               /\ Ends(pc, "ok")
    /\ UNCHANGED <<cConnected, cRunning, wpc, sock, wire, outbox, rest, budget, rSeen, stream,
                   delivered, returned>>

\* ------------------------------------------------------------------ remote process
\* What the remote may send next: a manifest once it has been asked to connect, state
\* batches once an episode has been started (at its own pace), stopped once per stop; a
\* message with a tag of its own making at any time.
RemoteMay(atom) ==
    IF atom \in ManifestTags THEN "connect" \in rSeen
    ELSE IF atom \in StateTags THEN "start" \in rSeen
    ELSE IF atom \in OtherTags THEN TRUE
    ELSE "stop" \in rSeen

RemoteSend(atom) ==
    /\ sock = "open"
    /\ budget > 0
    /\ RemoteMay(atom)
    /\ wire' = Append(wire, Msg(atom))
    /\ budget' = budget - 1
    /\ rSeen' = IF atom = "stopped" THEN rSeen \ {"stop"} ELSE rSeen
    /\ UNCHANGED <<commVars, sock, outbox, rest, envVars, pc, messages, result, stream,
                   delivered, returned, hist>>
    /\ UNCHANGED <<runVars, schema>>

\* The remote closes the connection (or its process ends).
RemoteClose ==
    /\ sock = "open"
    /\ sock' = "remoteClosed"
    /\ UNCHANGED <<commVars, wire, outbox, rest, budget, rSeen, envVars, pc, messages,
                   result, stream, delivered, returned, hist>>
    /\ UNCHANGED <<runVars, schema>>

\* ------------------------------------------------------------------ the program
ResetArgs == {<<0, "None">>, <<1, "opt">>, <<2, "None">>}
ActionLists == {<<IntAction(0)>>, <<IntAction(2)>>, <<FloatAction(0)>>,
                <<IntAction(1), NoAction>>}

\* The protocol state after construction; the remote will send at most b messages.
ProtocolInit(b) ==
    /\ cConnected = FALSE
    /\ cRunning = FALSE
    /\ queue = <<>>
    /\ partial = <<>>
    /\ wpc = [w \in Workers |-> "none"]
    /\ sock = "unconnected"
    /\ wire = <<>>
    /\ outbox = <<>>
    /\ rest = <<>>
    /\ budget = b
    /\ rSeen = {}
    /\ eConnected = FALSE
    /\ eRunning = FALSE
    /\ statesReady = FALSE
    /\ states = "None"
    /\ manifest = "None"
    /\ pc = "idle"
    /\ messages = <<>>
    /\ result = <<"none", "ok">>
    /\ stream = <<>>
    /\ delivered = <<>>
    /\ returned = <<>>
    /\ hist = HistInit
    /\ schema = [op |-> "none"]

\* The state after construction when no Runner drives the environment.
InitBudget(b) == ProtocolInit(b) /\ NoRunner

Init == InitBudget(MaxRemote)

RaceInit == InitBudget(MaxRaceRemote)

\* The steps of the worker threads W, the transport and the remote.
Background(W) ==
    \/ \E w \in W : WorkerTop(w)
    \/ \E w \in W : WorkerRecvData(w)
    \/ \E w \in W : WorkerRecvDisconnected(w)
    \/ \E w \in W : WorkerStopRunning(w)
    \/ \E atom \in ManifestTags \cup StateTags \cup {"stopped"} : RemoteSend(atom)
    \/ RemoteClose

\* The steps of the program, the transport and the remote, with the worker threads W.
Next(W) ==
    \/ Env_connect(W) /\ UNCHANGED <<runVars, schema>>
    \/ \E a \in ResetArgs : Env_reset(a[1], a[2]) /\ UNCHANGED <<runVars, schema>>
    \/ \E actions \in ActionLists : Env_act(actions) /\ UNCHANGED <<runVars, schema>>
    \/ Env_stop /\ UNCHANGED <<runVars, schema>>
    \/ Env_update /\ UNCHANGED <<runVars, schema>>
    \/ Background(W)

\* A worker thread has ended before start() makes the next one.
Spec == Init /\ [][Next({1})]_vars

\* start() may make a thread while an earlier one has not yet tested _running again.
SpecRace == RaceInit /\ [][Next(Workers)]_vars

RECURSIVE DecodeAll(_, _)
\* The messages and the residue that decoding the chunks one after the other yields.
DecodeAll(chunks, st) ==
    IF chunks = <<>> THEN st
    ELSE DecodeAll(Tail(chunks), get_messages_item(Head(chunks), st))

\* get_messages() returns in this step: it took a chunk and no call is in progress after.
GetMessagesReturns == Len(queue') < Len(queue) /\ hist'.taken = <<>>

\* C2: get_messages() takes nothing and returns nothing while the queue is empty, and
\* does not return without a message; when it returns, the queue is empty and the list
\* returned holds, in arrival order, exactly the messages decoded from the chunks it
\* took from the front of the queue; what successive calls return is appended to what
\* was returned before, so no message is returned twice.
GetMessagesContract ==
    [][ /\ GetMessagesReturns =>
             /\ returned' # <<>>
             /\ queue' = <<>>
             /\ returned' = DecodeAll(Append(hist.taken, Head(queue)),
                                      [messages |-> <<>>, partial |-> hist.partial0]).messages
             /\ delivered' = delivered \o returned'
        /\ ~GetMessagesReturns =>
             /\ delivered' = delivered
             /\ messages' = DecodeAll(hist'.taken,
                                      [messages |-> <<>>, partial |-> hist.partial0]).messages
        /\ (queue = <<>>) => (delivered' = delivered /\ hist'.taken = hist.taken)
      ]_vars

\* A call has returned two messages and left the queue empty, after an earlier call.
GetMessagesWitness ==
    /\ Len(returned) >= 2
    /\ Len(delivered) > Len(returned)
    /\ queue = <<>>
    /\ pc = "get"

\* ------------------------------------------------------------------ drains
Elems(s) == {s[i] : i \in DOMAIN s}

Waiting == {"connect", "reset", "act", "stop"}

\* The list the get_messages() call in progress holds once it has taken the next chunk.
Drained == get_messages_item(Head(queue), [messages |-> messages, partial |-> partial]).messages

\* In this step the get_messages() call of the operation in progress returns Drained.
DrainReturns ==
    /\ pc \in Waiting
    /\ queue # <<>>
    /\ queue' = Tail(queue)
    /\ get_messages_done(queue', Drained)

\* C3: a worker that has caught Disconnected has put exactly one disconnected message
\* on the queue, no second one is put while the connection is the same, and that
\* worker never calls recv() again.
DisconnectionSynthesis ==
    [][ /\ hist'.discPut <= 1
        /\ \A w \in Workers :
              (w \in hist.caught /\ wpc[w] # "recv") => wpc'[w] # "recv"
        /\ \A w \in Workers :
              (w \notin hist.caught /\ w \in hist'.caught) =>
                  queue' = Append(queue, DISCONNECTED_MESSAGE_JSON)
      ]_vars

\* C4: a drain of connect(), reset(), act() or stop() that returns a list holding a
\* disconnected message ends the operation with Disconnected, and the environment is
\* not connected afterwards.
DisconnectedUnwinds ==
    [][ (DrainReturns /\ DISCONNECTED_MESSAGE_JSON \in Elems(Drained)) =>
            /\ pc' = "idle"
            /\ result' = <<pc, "Disconnected">>
            /\ ~eConnected'
      ]_vars

\* C5: a reset() or act() called with a manifest and valid arguments after the remote
\* has closed the connection is either in progress, or has returned a batch received
\* before the loss, or has ended with Disconnected: it ends with no other exception.
LossEndsWithDisconnected ==
    [][ (pc = "idle" /\ sock = "remoteClosed" /\ manifest # "None"
           /\ result' # result /\ result'[1] \in {"reset", "act"}) =>
            result'[2] \in {"running", "ok", "Disconnected", "ValueError"}
      ]_vars

\* ------------------------------------------------------------------ calls
\* connect() is called in this step.
ConnectCalled == Env_connect({1}) \/ Env_connect(Workers)

\* The player count reset(num_players, ...) sends (0 stands for None).
PlayersSent(num_players) ==
    IF num_players = 0 THEN possible_players(manifest)[1] ELSE num_players

ResetOnlyFromIdle ==
    [][ \A a \in ResetArgs :
           (Env_reset(a[1], a[2]) /\ (~eConnected \/ eRunning)) =>
               /\ outbox' = <<>>
               /\ pc' = "idle"
               /\ result'[2] \notin {"running", "ok"}
      ]_vars

\* C8: a reset() called while the communicator is not connected fails, sends no start
\* message and begins no episode; a reset() called while an episode is running on an
\* open connection is accepted: it forgets the episode and its batch, sends the start
\* message and waits for the first batch of the new episode.
ResetAcceptance ==
    [][ \A a \in ResetArgs :
           Env_reset(a[1], a[2]) =>
               /\ ~cConnected =>
                     /\ outbox' = <<>>
                     /\ pc' = "idle"
                     /\ result'[2] \in {"AssertionError", "AttributeError"}
               /\ (cConnected /\ eRunning /\ sock = "open") =>
                     /\ outbox' = <<start_message(PlayersSent(a[1]), a[2])>>
                     /\ pc' = "reset"
                     /\ ~eRunning'
                     /\ states' = "None"
      ]_vars

\* A reset() called while an episode was running has returned with a new episode.
ResetWhileRunningWitness ==
    /\ hist.restarted
    /\ result = <<"reset", "ok">>
    /\ eRunning
    /\ hist.installed

\* C9: a reset() that goes on to wait has sent exactly one start message, with the
\* player count and the options it was given; it sends nothing while it waits; it never
\* returns without waiting; and when it returns, a batch has been installed by a drain
\* after the send, running = true, and states_ready holds with a batch.
ResetContract ==
    [][ /\ \A a \in ResetArgs :
              (Env_reset(a[1], a[2]) /\ result'[2] \in {"running", "ok"}) =>
                  /\ outbox' = <<start_message(PlayersSent(a[1]), a[2])>>
                  /\ pc' = "reset"
        /\ pc = "reset" => outbox' = outbox
        /\ (pc = "reset" /\ result' = <<"reset", "ok">>) =>
              /\ Len(outbox) = 1
              /\ outbox[1].type = "start"
              /\ DrainReturns
              /\ \E t \in StateTags : Msg(t) \in Elems(Drained) /\ states' = t
              /\ hist'.installed
              /\ eRunning'
              /\ statesReady'
              /\ states' # "None"
      ]_vars

\* reset(2, None) has returned: one start message for two players, a batch installed.
ResetWitness ==
    /\ result = <<"reset", "ok">>
    /\ outbox = <<start_message(2, "None")>>
    /\ eRunning
    /\ statesReady
    /\ states \in StateTags
    /\ hist.installed

\* C10: an act() whose list holds an action that is neither None nor contained in the
\* action definition of the manifest ends at once with ValueError, and writes nothing
\* to the transport.
ActValidation ==
    [][ \A actions \in ActionLists :
           ( /\ Env_act(actions)
             /\ manifest # "None"
             /\ \E i \in 1..Len(actions) :
                   /\ actions[i] # NoAction
                   /\ ~IntValue_contains(actions_range(manifest), actions[i]) ) =>
               /\ result' = <<"act", "ValueError">>
               /\ pc' = "idle"
               /\ outbox' = <<>>
               /\ rSeen' = rSeen
      ]_vars

\* An act() on a connected environment has ended with ValueError and sent nothing.
ActValidationWitness ==
    /\ result = <<"act", "ValueError">>
    /\ outbox = <<>>
    /\ manifest # "None"
    /\ cConnected
    /\ sock = "open"

\* Every action of the list is None or contained in the action definition of manifest m.
ActionsInDefinition(m, actions) ==
    \A i \in 1..Len(actions) :
        actions[i] = NoAction \/ IntValue_contains(actions_range(m), actions[i])

\* C11 as stated: an act() whose list holds None while the latest batch says that the
\* episode is running for every agent ends with ValueError and writes nothing.
NoneOnlyForFinished ==
    [][ \A actions \in ActionLists :
           ( /\ Env_act(actions)
             /\ manifest # "None"
             /\ states # "None" /\ batch_running(states)
             /\ \E i \in 1..Len(actions) : actions[i] = NoAction ) =>
               /\ result' = <<"act", "ValueError">>
               /\ outbox' = <<>>
      ]_vars

\* C11: act() takes None at every position, whatever the running flags of the latest
\* batch: a list whose actions are each None or contained in the action definition is
\* never rejected with ValueError, and on an open connection it is sent as it is.
NoneAlwaysAccepted ==
    [][ \A actions \in ActionLists :
           ( /\ Env_act(actions)
             /\ manifest # "None"
             /\ ActionsInDefinition(manifest, actions) ) =>
               /\ result'[2] # "ValueError"
               /\ (cConnected /\ sock = "open") => outbox' = <<action_message(actions)>>
      ]_vars

\* act([1, None]) is waiting, sent while the batch said that every agent was running.
NoneForRunningWitness ==
    /\ pc = "act"
    /\ outbox = <<action_message(<<IntAction(1), NoAction>>)>>
    /\ ~statesReady
    /\ states # "None"
    /\ batch_running(states)

\* C12: an act() that gets past the checks has sent exactly one action message, with the
\* actions it was given; it never returns in the step of the call; it sends nothing
\* while it waits; and it returns only at a drain that installed a state batch, which is
\* the batch obtain_states() then yields.
ActContract ==
    [][ /\ \A actions \in ActionLists :
              Env_act(actions) =>
                  /\ result'[2] # "ok"
                  /\ result'[2] = "running" =>
                        (outbox' = <<action_message(actions)>> /\ pc' = "act" /\ ~statesReady')
        /\ pc = "act" => outbox' = outbox
        /\ (pc = "act" /\ result' = <<"act", "ok">>) =>
              /\ Len(outbox) = 1
              /\ outbox[1].type = "action"
              /\ DrainReturns
              /\ hist'.installed
              /\ statesReady'
              /\ \E t \in StateTags :
                    Msg(t) \in Elems(Drained) /\ obtain_states([EnvRec EXCEPT !.states = states']) = t
      ]_vars

\* act([0]) has returned with a batch installed by its drain.
ActWitness ==
    /\ result = <<"act", "ok">>
    /\ outbox = <<action_message(<<IntAction(0)>>)>>
    /\ hist.installed
    /\ statesReady
    /\ states \in StateTags

\* C13: a stop() called while an episode is running, whose drain returns the stopped
\* message of the remote (and no disconnected message), returns normally with
\* running = false.
StopReturnsOnStopped ==
    [][ ( /\ pc = "stop"
          /\ eRunning
          /\ DrainReturns
          /\ Msg("stopped") \in Elems(Drained)
          /\ DISCONNECTED_MESSAGE_JSON \notin Elems(Drained) ) =>
            /\ result' = <<"stop", "ok">>
            /\ ~eRunning'
      ]_vars

\* C14: reset(), act() and stop() called while the communicator is not connected, once
\* they come to the send, end with AssertionError and write nothing; and whatever an
\* operation writes, it writes while the communicator is connected.
SendsOnlyWhenConnected ==
    [][ /\ \A a \in ResetArgs :
              (Env_reset(a[1], a[2]) /\ ~cConnected /\ ~(a[1] = 0 /\ manifest = "None")) =>
                  (result' = <<"reset", "AssertionError">> /\ outbox' = <<>>)
        /\ \A actions \in ActionLists :
              (Env_act(actions) /\ ~cConnected /\ manifest # "None"
                 /\ ActionsInDefinition(manifest, actions)) =>
                  (result' = <<"act", "AssertionError">> /\ outbox' = <<>>)
        /\ (Env_stop /\ ~cConnected) =>
              (result' = <<"stop", "AssertionError">> /\ outbox' = <<>>)
        /\ (pc = "idle" /\ outbox' # <<>> /\ outbox' # outbox) => cConnected'
      ]_vars

\* ------------------------------------------------------------------ distributors
\* Ordinals are written 1..n here; the code counts them from 0.
\* Most agents a distributor is built from, ticks of one episode, episodes of one run,
\* and the largest accumulated reward the remote reports.
MaxAgents == 2
MaxTicks == 3
MaxEpisodes == 2
MaxReward == 2

Min(a, b) == IF a < b THEN a ELSE b

\* A callback made on an agent (reward and accumulated are 0 where the call has none; the
\* agent of set_players is the length of the range it is given).
Call(name, agent, reward, accumulated) ==
    [call |-> name, agent |-> agent, reward |-> reward, accumulated |-> accumulated]

\* A reward adapter that clips the reward to at most 1.
Clip(x) == IF x > 1 THEN 1 ELSE x

\* adapter.py:10-28: adapt_object ("None" is no adapter)
adapt_object(obj, adapters) == IF adapters = "None" THEN obj ELSE Clip(obj)

\* distributor.py:25-35: _AgentRunningState.__init__
AgentRunningState ==
    [running |-> TRUE, state |-> "None", action |-> NoAction, accumulated_reward |-> "None",
     num_actions |-> 0, episode_time |-> "None"]

\* An update() that counts every call, one without an action included.
AgentState_update_count_all(agent_state, state, action, accumulated_reward) ==
    [agent_state EXCEPT !.state = state, !.action = action,
                        !.accumulated_reward = accumulated_reward,
                        !.num_actions = @ + 1]

\* distributor.py:43-56: _AgentRunningState.update
AgentState_update(agent_state, state, action, accumulated_reward) ==
    [agent_state EXCEPT !.state = state, !.action = action,
                        !.accumulated_reward = accumulated_reward,
                        !.num_actions = IF action # NoAction THEN @ + 1 ELSE @]

\* An ended() that takes the time and leaves the running flag set.
AgentState_ended_running(agent_state) == [agent_state EXCEPT !.episode_time = "set"]

\* distributor.py:58-64: _AgentRunningState.ended
AgentState_ended(agent_state) ==
    [agent_state EXCEPT !.running = FALSE, !.episode_time = "set"]

\* A reward that is the accumulated total instead of the difference.
reward_total(accumulated_reward, previous) == accumulated_reward

\* distributor.py:215: the reward passed to receive_reward
reward_delta(accumulated_reward, previous) == accumulated_reward - previous

\* An agent that is asked for an action on its terminal state too.
selected_action_always(running, act) == act

\* distributor.py:226: action = agent.act(state) if running else None
selected_action(running, act) == IF running THEN act ELSE NoAction

\* A _react_to_state that goes on whatever the running flag of the agent's record.
returns_at_once_never(agent_state) == FALSE

\* distributor.py:206-207: _react_to_state returns None at once
returns_at_once(agent_state) == ~agent_state.running

\* An act() that is called for every state, a terminal one included.
act_called_always(running) == TRUE

\* distributor.py:226: act() is called
act_called(running) == running

\* distributor.py:194-235: _react_to_state for the agent at ordinal player, whose act()
\* would answer act.  Gives the new running state, the action returned and the
\* callbacks made, in order, with the call of agent_state.ended() among them.
react_to_state(d, training, player, state_info, agent_state, act) ==
    IF returns_at_once(agent_state)
    THEN [agent_state |-> agent_state, action |-> NoAction, calls |-> <<>>]
    ELSE LET state == state_info.state
             accumulated_reward == adapt_object(state_info.accumulated_reward,
                                                d.reward_adapters)
             rewards == IF training /\ agent_state.state # "None"
                        THEN <<Call("receive_reward", player,
                                    reward_delta(accumulated_reward,
                                                 agent_state.accumulated_reward),
                                    accumulated_reward)>>
                        ELSE <<>>
             action == selected_action(state_info.running, act)
             acts == IF act_called(state_info.running) THEN <<Call("act", player, 0, 0)>>
                     ELSE <<>>
             updated == AgentState_update(agent_state, state, action, accumulated_reward)
             ends == IF agent_state.running /\ ~state_info.running
                     THEN <<Call("ended", player, 0, 0)>>
                     ELSE <<>>
         IN  [agent_state |-> IF ~agent_state.running THEN agent_state
                              ELSE IF state_info.running THEN updated
                              ELSE AgentState_ended(updated),
              action |-> action,
              calls |-> rewards \o acts \o ends]

\* distributor.py:251-268, 342-361, 445-463: the distributor after construction.  kind
\* is "single", "list" or "multi"; learner says whether every agent is a Learner (an
\* agent that is not has only initialize and act); <<>> stands for None in
\* agents_states, num_players and a selected player count.
Distributor(kind, num_agents, learner, reward_adapters) ==
    [kind |-> kind,
     num_agents |-> num_agents,
     learning_supported |-> IF kind = "multi" THEN TRUE ELSE learner,
     reward_adapters |-> reward_adapters,
     manifest |-> "None",
     num_players |-> <<>>,
     agents_states |-> IF kind = "single" THEN <<AgentRunningState>> ELSE <<>>,
     recorder |-> [made |-> FALSE, rows |-> <<>>]]

\* metrics.py:61-74 and 190-198: a recorder for n agents with no rows yet
Recorder(n) == [made |-> TRUE, rows |-> [i \in 1..n |-> 0]]

\* metrics.py:76-85 and 213-214: add_episode_metrics with one row for each of n agents
add_episode_metrics(recorder, n) ==
    [recorder EXCEPT !.rows = [i \in 1..Len(@) |-> IF i <= n THEN @[i] + 1 ELSE @[i]]]

\* distributor.py:273-277, 366-370, 468-471: initialize_players
initialize_players(d, m) ==
    [d EXCEPT !.manifest = m,
              !.recorder = IF d.kind = "single" THEN Recorder(1) ELSE @]

\* A select_players_num that takes every selected count.
select_players_num_any(d, selected_players) ==
    LET n == IF selected_players # <<>> THEN selected_players[1]
             ELSE IF d.kind = "single" THEN 1 ELSE d.num_agents
    IN  [exc |-> "ok", value |-> n,
         dist |-> IF d.kind = "single" THEN d ELSE [d EXCEPT !.recorder = Recorder(n)]]

\* distributor.py:280-287, 373-382, 473-479: select_players_num.  Gives the count
\* returned, or the exception raised, and the distributor afterwards.
select_players_num(d, selected_players) ==
    IF d.kind = "single"
    THEN IF selected_players # <<>> /\ selected_players[1] # 1
         THEN [exc |-> "AssertionError", value |-> 0, dist |-> d]
         ELSE [exc |-> "ok", value |-> 1, dist |-> d]
    ELSE IF d.kind = "list"
    THEN IF selected_players # <<>> /\ selected_players[1] # d.num_agents
         THEN [exc |-> "AssertionError", value |-> 0, dist |-> d]
         ELSE IF d.manifest = "None"
         THEN [exc |-> "AttributeError", value |-> 0, dist |-> d]
         ELSE [exc |-> "ok", value |-> d.num_agents,
               dist |-> [d EXCEPT !.recorder = Recorder(d.num_agents)]]
    ELSE IF d.manifest = "None"
         THEN [exc |-> "AttributeError", value |-> 0, dist |-> d]
         ELSE LET pp == possible_players(d.manifest)
                  n == IF selected_players = <<>>
                       THEN CHOOSE x \in Elems(pp) : \A y \in Elems(pp) : y <= x
                       ELSE selected_players[1]
              IN  [exc |-> "ok", value |-> n,
                   dist |-> [d EXCEPT !.num_players = <<n>>, !.recorder = Recorder(n)]]

\* An _assert_num_players_supported that always passes.
assert_num_players_any(num_players, pp) == TRUE

\* core.py:33-44: _assert_num_players_supported passes
assert_num_players_supported(num_players, pp) == num_players \in Elems(pp)

\* distributor.py:293, 389, 487: agent.episode_started(episode) (agent 0 is the one
\* MultiLearner)
episode_started(agent, episode) ==
    [call |-> "episode_started", agent |-> agent, episode |-> episode]

\* distributor.py:289-293, 384-389, 481-487: initialize_episode.  Gives the distributor
\* afterwards, the callbacks made and the exception raised, if any.
initialize_episode(d, episode) ==
    IF d.kind = "single"
    THEN [dist |-> [d EXCEPT !.agents_states = <<AgentRunningState>>],
          calls |-> IF d.learning_supported THEN <<episode_started(1, episode)>>
                    ELSE <<>>,
          exc |-> IF d.learning_supported THEN "ok" ELSE "AttributeError"]
    ELSE IF d.kind = "list"
    THEN [dist |-> [d EXCEPT !.agents_states = [i \in 1..d.num_agents |-> AgentRunningState]],
          calls |-> IF d.learning_supported
                    THEN [i \in 1..d.num_agents |-> episode_started(i, episode)]
                    ELSE <<>>,
          exc |-> IF d.learning_supported THEN "ok" ELSE "AttributeError"]
    ELSE IF d.num_players = <<>>
    THEN [dist |-> d, calls |-> <<>>, exc |-> "TypeError"]
    ELSE [dist |-> [d EXCEPT !.agents_states =
                                 [i \in 1..d.num_players[1] |-> AgentRunningState]],
          calls |-> <<Call("set_players", d.num_players[1], 0, 0),
                      episode_started(0, episode)>>,
          exc |-> "ok"]

\* An is_episode_running that looks at the first agent only.
is_episode_running_first(d) == d.agents_states # <<>> /\ d.agents_states[1].running

\* distributor.py:328-329, 394-395, 492-493: is_episode_running
is_episode_running(d) ==
    \E i \in 1..Len(d.agents_states) : d.agents_states[i].running

\* distributor.py:318-326: _collect_metrics, the call of add_episode_metrics with the row
\* it passes (a batch carries no game metrics here)
collect_metrics(agent_state) ==
    [call |-> "add_episode_metrics", agent |-> 1,
     metrics |-> <<agent_state.episode_time, agent_state.num_actions,
                   agent_state.accumulated_reward>>]

\* distributor.py:298-304 and 306-316: SingleAgentDistributor.react_to_states
\* (training FALSE) and learn_from_states (training TRUE).  batch is the StatesInfo, acts[i]
\* what the agent at ordinal i answers when its act() is called.  Gives the distributor
\* afterwards, whether None is returned, the action list otherwise, the callbacks made
\* and the exception raised, if any.
Single_react_to_states(d, training, batch, acts) ==
    IF training /\ ~d.learning_supported
    THEN [dist |-> d, none |-> TRUE, actions |-> <<>>, calls |-> <<>>,
          exc |-> "AssertionError"]
    ELSE LET r == react_to_state(d, training, 1, batch[1], d.agents_states[1], acts[1])
             over == ~r.agent_state.running
         IN  [dist |-> [d EXCEPT !.agents_states = <<r.agent_state>>,
                                 !.recorder = IF over THEN add_episode_metrics(@, 1) ELSE @],
              none |-> r.action = NoAction,
              actions |-> IF r.action = NoAction THEN <<>> ELSE <<r.action>>,
              calls |-> r.calls
                        \o (IF over /\ training
                            THEN <<Call("episode_ended", 1, 0,
                                        r.agent_state.accumulated_reward)>>
                            ELSE <<>>)
                        \o (IF over THEN <<collect_metrics(r.agent_state)>> ELSE <<>>),
              exc |-> "ok"]

\* A loop that never tells the learner which player acts.
acting_player_unset(d, i) == <<>>

\* distributor.py:509: self._agent.set_acting_player(player), of MultiLearnerDistributor only
acting_player(d, i) ==
    IF d.kind = "multi" THEN <<Call("set_acting_player", i, 0, 0)>> ELSE <<>>

RECURSIVE react_each(_, _, _, _, _, _)
\* distributor.py:410-412 and 508-511: the loop over zip(agents, states, agents_states)
\* from ordinal i on; acc holds the running states, the actions and the callbacks so far.
react_each(d, training, batch, acts, i, acc) ==
    IF i > Min(Len(batch), Len(d.agents_states))
    THEN acc
    ELSE LET r == react_to_state(d, training, i, batch[i], d.agents_states[i], acts[i])
             acting == acting_player(d, i)
         IN  react_each(d, training, batch, acts, i + 1,
                        [agents_states |-> [acc.agents_states EXCEPT ![i] = r.agent_state],
                         actions |-> Append(acc.actions, r.action),
                         calls |-> acc.calls \o acting \o r.calls])

RECURSIVE episode_ended_each(_, _, _)
\* distributor.py:416-420 and 515-520: the closing loop over the agents from ordinal i on
episode_ended_each(d, training, i) ==
    IF i > Len(d.agents_states)
    THEN <<>>
    ELSE (IF training /\ d.kind = "multi" THEN <<Call("set_acting_player", i, 0, 0)>>
          ELSE <<>>)
         \o (IF training
             THEN <<Call("episode_ended", i, 0, d.agents_states[i].accumulated_reward)>>
             ELSE <<>>)
         \o <<Call("metrics", i, 0, 0)>>
         \o episode_ended_each(d, training, i + 1)

\* distributor.py:397-425 and 495-525: _react_to_states of AgentListDistributor and
\* MultiLearnerDistributor (react_to_states with training FALSE, learn_from_states with
\* training TRUE).
Agents_react_to_states(d, training, batch, acts) ==
    IF training /\ ~d.learning_supported
    THEN [dist |-> d, none |-> TRUE, actions |-> <<>>, calls |-> <<>>,
          exc |-> "AssertionError"]
    ELSE LET r == react_each(d, training, batch, acts, 1,
                             [agents_states |-> d.agents_states, actions |-> <<>>,
                              calls |-> <<>>])
             d1 == [d EXCEPT !.agents_states = r.agents_states]
             over == ~is_episode_running(d1)
         IN  IF over
             THEN [dist |-> [d1 EXCEPT !.recorder =
                                          add_episode_metrics(@, Len(d1.agents_states))],
                   none |-> TRUE,
                   actions |-> <<>>,
                   calls |-> r.calls \o episode_ended_each(d1, training, 1)
                             \o <<Call("add_episode_metrics", 0, 0, 0)>>,
                   exc |-> "ok"]
             ELSE [dist |-> d1, none |-> FALSE, actions |-> r.actions, calls |-> r.calls,
                   exc |-> "ok"]

\* core.py:184-187: the distributor's answer to one batch
Distribute(d, training, batch, acts) ==
    IF d.kind = "single" THEN Single_react_to_states(d, training, batch, acts)
    ELSE Agents_react_to_states(d, training, batch, acts)

\* ------------------------------------------------------------------ Runner._run
\* What an agent may answer when its act() is called.
AgentAnswers == {IntAction(0), IntAction(1)}

\* The batches of width n the remote may report (enviroment.py:14-43, StatesInfo).
StatesInfos(n) ==
    [1..n -> [state : {"state1"}, accumulated_reward : 0..MaxReward, running : BOOLEAN]]

\* The distributors a Runner or a caller may build (core.py:96-101).
Distributors ==
    {Distributor("single", 1, l, ra) : l \in BOOLEAN, ra \in {"None", "clip"}}
    \cup {Distributor("list", n, l, ra) :
             n \in 1..MaxAgents, l \in BOOLEAN, ra \in {"None", "clip"}}
    \cup {Distributor("multi", 1, TRUE, ra) : ra \in {"None", "clip"}}

\* The locals of _run (core.py:161-192) at its start in the given mode, and the history
\* of the run: the last batch distributed, the ordinals whose running flag has been
\* false in a batch of this episode, what the distributor returned last, and the
\* exception that ended the run with the call that raised it, and the condition caught
\* at the boundary of train() / play(), if any.  num_players holds the parameter (<<>>
\* for None) until select_players_num has replaced it; sent_tick is the number of batches
\* of the episode that had been distributed when _run last called reset() or act().
RunLocals(mode, num_players) ==
    [rpc |-> "select", mode |-> mode, num_players |-> num_players, episode |-> 0,
     tick |-> 0, batch |-> <<>>, cleared |-> {}, none |-> TRUE, actions |-> <<>>,
     exc |-> "ok", at |-> "none", ended_by |-> "none", sent_tick |-> 0]

\* _run ends with an exception raised by the named call.
Raised(exc, at) == [run EXCEPT !.rpc = "failed", !.exc = exc, !.at = at]

\* Every variable of the protocol.
protocolVars == <<commVars, sock, wire, outbox, rest, budget, rSeen, envVars, pc, messages,
                  result, stream, delivered, returned, hist>>

\* core.py:173-174: select_players_num and _assert_num_players_supported
Run_select ==
    /\ run.rpc = "select"
    /\ \E r \in {select_players_num(dist, run.num_players)} :
           /\ dist' = r.dist
           /\ run' = IF r.exc # "ok"
                     THEN Raised(r.exc, "select_players_num")
                     ELSE IF ~assert_num_players_supported(r.value,
                                                           possible_players(dist.manifest))
                     THEN [Raised("AssertionError", "_assert_num_players_supported")
                              EXCEPT !.num_players = <<r.value>>]
                     ELSE [run EXCEPT !.rpc = "loop", !.num_players = <<r.value>>]
    /\ calls' = <<>>
    /\ UNCHANGED schema

\* core.py:178: distributor.do_start_episode(episode + 1) and what it returned
do_start_episode(episode, answer) ==
    [call |-> "do_start_episode", agent |-> 0, episode |-> episode, answer |-> answer]

\* What do_start_episode may answer in the loop condition: it is not called when playing
\* (written FALSE), and the agents stop a training after MaxEpisodes episodes.
StartAnswers(r) ==
    IF r.mode = "Training" /\ r.episode < MaxEpisodes THEN BOOLEAN ELSE {FALSE}

\* A loop condition that lets play() start one episode more.
loop_condition_one_more(mode, episode, num_episodes, answer) ==
    \/ mode = "Playing" /\ episode <= num_episodes
    \/ mode = "Training" /\ answer

\* core.py:177-178: the condition of the outer loop of _run
loop_condition(mode, episode, num_episodes, answer) ==
    \/ mode = "Playing" /\ episode < num_episodes
    \/ mode = "Training" /\ answer

\* core.py:177-178: the calls the loop condition makes
loop_calls(mode, episode, answer) ==
    IF mode = "Training" THEN <<do_start_episode(episode + 1, answer)>> ELSE <<>>

\* core.py:177-180: the loop condition is true (in training because the agents'
\* do_start_episode says so), the next episode is counted.  play(num_episodes) is called
\* with MaxEpisodes.
Run_start_episode ==
    /\ run.rpc = "loop"
    /\ \E answer \in StartAnswers(run) :
          /\ loop_condition(run.mode, run.episode, MaxEpisodes, answer)
          /\ calls' = loop_calls(run.mode, run.episode, answer)
    /\ run' = [run EXCEPT !.rpc = "reset", !.episode = @ + 1]
    /\ UNCHANGED dist
    /\ UNCHANGED schema

\* core.py:177-178: the loop condition is false, _run returns.
Run_return ==
    /\ run.rpc = "loop"
    /\ \E answer \in StartAnswers(run) :
          /\ ~loop_condition(run.mode, run.episode, MaxEpisodes, answer)
          /\ calls' = loop_calls(run.mode, run.episode, answer)
    /\ run' = [run EXCEPT !.rpc = "returned"]
    /\ UNCHANGED dist
    /\ UNCHANGED schema

\* core.py:182: initialize_episode, after reset() has returned.
Run_initialize_episode ==
    /\ run.rpc = "initialize_episode"
    /\ \E r \in {initialize_episode(dist, run.episode)} :
           /\ dist' = r.dist
           /\ calls' = r.calls
           /\ run' = IF r.exc # "ok" THEN Raised(r.exc, "initialize_episode")
                     ELSE [run EXCEPT !.rpc = "tick", !.tick = 0, !.batch = <<>>,
                                      !.cleared = {}]
    /\ UNCHANGED schema

\* What the agents answer to a batch: act() is called only for a state whose running flag
\* is set, so an agent that is not asked has no answer, written as the first of AgentAnswers.
Answers(batch) ==
    {acts \in [1..Len(batch) -> AgentAnswers] :
        \A i \in 1..Len(batch) : ~batch[i].running => acts[i] = IntAction(0)}

\* A driver that calls act() whatever the distributor returned.
forwards_always(none) == TRUE

\* core.py:189: if actions is not None
forwards(none) == ~none

\* core.py:183-187: one turn of the inner loop on the batch given, up to the call of act().
Run_distribute(batch) ==
    /\ run.rpc = "tick"
    /\ is_episode_running(dist)
    /\ run.tick < MaxTicks
    /\ \E acts \in Answers(batch) :
          \E r \in {Distribute(dist, run.mode = "Training", batch, acts)} :
              /\ dist' = r.dist
              /\ calls' = r.calls
              /\ run' = IF r.exc # "ok" THEN Raised(r.exc, "learn_from_states")
                        ELSE [run EXCEPT
                                 !.rpc = IF forwards(r.none) THEN "act" ELSE "tick",
                                 !.tick = @ + 1,
                                 !.batch = batch,
                                 !.cleared = @ \cup {i \in 1..Len(batch) : ~batch[i].running},
                                 !.none = r.none,
                                 !.actions = r.actions]
    /\ UNCHANGED schema

\* core.py:183 and 191-192: the episode has ended for every agent.
Run_episode_ended ==
    /\ run.rpc = "tick"
    /\ ~is_episode_running(dist)
    /\ run' = [run EXCEPT !.rpc = "loop"]
    /\ calls' = <<>>
    /\ UNCHANGED dist
    /\ UNCHANGED schema

\* ------------------------------------------------------------------ the distributor alone
\* The player counts a caller may select (<<>> is None).
Selections == {<<>>} \cup {<<n>> : n \in 0..(MaxAgents + 1)}

\* A distributor that initialize_players has given a manifest (core.py:171), and _run
\* about to select the number of players; train() has asserted that training is
\* supported (core.py:146).
DistInit ==
    /\ ProtocolInit(0)
    /\ dist \in {initialize_players(d, m) : d \in Distributors, m \in ManifestTags}
    /\ run \in {RunLocals(mode, n) : mode \in {"Playing", "Training"}, n \in Selections}
    /\ run.mode = "Training" => dist.learning_supported
    /\ calls = <<>>

\* The batches the remote may report next: one entry for each player of the episode, and
\* for a player whose episode has ended the entry it reported last.
RemoteBatches ==
    {b \in StatesInfos(Len(dist.agents_states)) : \A i \in run.cleared : b[i] = run.batch[i]}

\* core.py:181 and 190 with an environment that answers at once: reset() and act() return.
Dist_environment ==
    /\ run.rpc \in {"reset", "act"}
    /\ run' = [run EXCEPT !.rpc = IF run.rpc = "reset" THEN "initialize_episode" ELSE "tick"]
    /\ UNCHANGED <<dist, calls>>
    /\ UNCHANGED schema

\* The steps of _run over a distributor, with batches the remote chooses freely.
DistNext ==
    \/ Run_select /\ UNCHANGED protocolVars
    \/ Run_start_episode /\ UNCHANGED protocolVars
    \/ Run_initialize_episode /\ UNCHANGED protocolVars
    \/ \E batch \in RemoteBatches : Run_distribute(batch) /\ UNCHANGED protocolVars
    \/ Run_episode_ended /\ UNCHANGED protocolVars
    \/ Run_return /\ UNCHANGED protocolVars
    \/ Dist_environment /\ UNCHANGED protocolVars

SpecDist == DistInit /\ [][DistNext]_vars

\* ------------------------------------------------------------------ Runner.train / Runner.play
\* Messages the remote sends during one run driven by a Runner.
MaxRunRemote == 3

\* The distributors a Runner builds: it hands them no reward adapters (core.py:96-101).
RunnerDistributors == {d \in Distributors : d.reward_adapters = "None"}

\* enviroment.py:354-368: the StatesInfo made from the batch with the tag given, for n
\* players.
StatesInfo_of(tag, n) ==
    [i \in 1..n |-> [state |-> "state1",
                     accumulated_reward |-> IF batch_running(tag) THEN 0 ELSE 1,
                     running |-> batch_running(tag)]]

\* core.py:65-106 and 108-159: a Runner has been constructed and train() or play() is
\* called.
RunnerInit ==
    /\ ProtocolInit(MaxRunRemote)
    /\ dist \in RunnerDistributors
    /\ run \in {[RunLocals(mode, n) EXCEPT !.rpc = "start"] :
                   mode \in {"Playing", "Training"}, n \in Selections}
    /\ calls = <<>>

\* core.py:146: train() asserts that training is supported before its try block.
Run_training_refused ==
    /\ run.rpc = "start"
    /\ run.mode = "Training" /\ ~dist.learning_supported
    /\ run' = Raised("AssertionError", "assert_training_supported")
    /\ UNCHANGED <<dist, calls>>
    /\ UNCHANGED schema

\* core.py:170: environment.connect() is called.
Run_connect ==
    /\ run.rpc = "start"
    /\ run.mode = "Training" => dist.learning_supported
    /\ Env_connect({1})
    /\ run' = [run EXCEPT !.rpc = "connect"]
    /\ UNCHANGED <<dist, calls>>
    /\ UNCHANGED schema

\* communication.py:309-314, called from core.py:170: nothing listens at the address, the
\* socket's connect raises ConnectionRefusedError after start() has made the worker.
Run_connect_refused ==
    /\ run.rpc = "start"
    /\ run.mode = "Training" => dist.learning_supported
    /\ pc = "idle"
    /\ ~eConnected
    /\ Comm_start({1})
    /\ sock' = "refused"
    /\ Ends("connect", "ConnectionRefusedError")
    /\ outbox' = <<>>
    /\ hist' = [hist EXCEPT !.installed = FALSE, !.num_state_messages = 0, !.restarted = FALSE,
                            !.disconnected = FALSE]
    /\ run' = [run EXCEPT !.rpc = "connect"]
    /\ UNCHANGED <<cConnected, queue, partial, wire, rest, budget, rSeen, envVars, messages,
                   stream, delivered, returned, dist, calls>>
    /\ UNCHANGED schema

\* core.py:181: environment.reset(num_players, options) is called.
Run_reset ==
    /\ run.rpc = "reset"
    /\ Env_reset(run.num_players[1], "None")
    /\ run' = [run EXCEPT !.rpc = "reset_wait", !.sent_tick = 0]
    /\ UNCHANGED <<dist, calls>>
    /\ UNCHANGED schema

\* core.py:189-190: environment.act(actions) is called.
Run_act ==
    /\ run.rpc = "act"
    /\ Env_act(run.actions)
    /\ run' = [run EXCEPT !.rpc = "act_wait", !.sent_tick = run.tick]
    /\ UNCHANGED <<dist, calls>>
    /\ UNCHANGED schema

\* core.py:170-171, 181-182, 190 and 125-128, 154-157: the call of the environment has
\* ended.  _run goes on after a normal return (after connect() with initialize_players);
\* Disconnected and ConnectionRefusedError are caught at the boundary and train() /
\* play() returns; any other exception leaves train() / play().
Run_environment_returned ==
    /\ run.rpc \in {"connect", "reset_wait", "act_wait"}
    /\ pc = "idle"
    /\ IF result[2] = "ok"
       THEN /\ run' = [run EXCEPT !.rpc = IF run.rpc = "connect" THEN "select"
                                          ELSE IF run.rpc = "reset_wait"
                                          THEN "initialize_episode"
                                          ELSE "tick"]
            /\ dist' = IF run.rpc = "connect" THEN initialize_players(dist, manifest)
                       ELSE dist
       ELSE /\ run' = IF result[2] \in {"Disconnected", "ConnectionRefusedError"}
                      THEN [run EXCEPT !.rpc = "returned", !.ended_by = result[2]]
                      ELSE Raised(result[2], result[1])
            /\ UNCHANGED dist
    /\ UNCHANGED calls
    /\ UNCHANGED protocolVars
    /\ UNCHANGED schema

\* The positions of _run inside the try block of train() / play().
InTry == {"connect", "select", "loop", "reset", "reset_wait", "initialize_episode", "tick",
          "act", "act_wait"}

\* core.py:122 and 151: KeyboardInterrupt strikes the orchestration thread inside the try
\* block, unless an exception is already on its way to the handlers; the call in
\* progress is abandoned with its locals.
Run_interrupt ==
    /\ run.rpc \in InTry
    /\ ~(run.rpc \in {"connect", "reset_wait", "act_wait"} /\ pc = "idle" /\ result[2] # "ok")
    /\ pc' = "idle"
    /\ messages' = <<>>
    /\ result' = <<pc, "KeyboardInterrupt">>
    /\ run' = [run EXCEPT !.rpc = "interrupted", !.ended_by = "interrupt"]
    /\ UNCHANGED <<commVars, sock, wire, outbox, rest, budget, rSeen, envVars, stream,
                   delivered, returned, hist, dist, calls>>
    /\ UNCHANGED schema

\* core.py:124 and 153: the handler of KeyboardInterrupt calls environment.stop().
Run_stop ==
    /\ run.rpc = "interrupted"
    /\ Env_stop
    /\ run' = [run EXCEPT !.rpc = "stop_wait"]
    /\ UNCHANGED <<dist, calls>>
    /\ UNCHANGED schema

\* core.py:124 and 153: stop() has ended inside the handler.  An exception it raises,
\* Disconnected included, is raised inside an except clause and leaves train() / play().
Run_stop_returned ==
    /\ run.rpc = "stop_wait"
    /\ pc = "idle"
    /\ run' = IF result[2] = "ok" THEN [run EXCEPT !.rpc = "returned"]
              ELSE Raised(result[2], "stop")
    /\ UNCHANGED <<dist, calls>>
    /\ UNCHANGED protocolVars
    /\ UNCHANGED schema

\* The steps of train() / play(), of the worker thread, the transport and the remote.
RunnerNext ==
    \/ Run_training_refused /\ UNCHANGED protocolVars
    \/ Run_connect
    \/ Run_connect_refused
    \/ Run_environment_returned
    \/ Run_select /\ UNCHANGED protocolVars
    \/ Run_start_episode /\ UNCHANGED protocolVars
    \/ Run_reset
    \/ Run_initialize_episode /\ UNCHANGED protocolVars
    \/ Run_distribute(StatesInfo_of(obtain_states(EnvRec), Len(dist.agents_states)))
          /\ UNCHANGED protocolVars
    \/ Run_act
    \/ Run_episode_ended /\ UNCHANGED protocolVars
    \/ Run_return /\ UNCHANGED protocolVars
    \/ Run_interrupt
    \/ Run_stop
    \/ Run_stop_returned
    \/ Env_update /\ UNCHANGED <<runVars, schema>>
    \/ Background({1})

SpecRunner == RunnerInit /\ [][RunnerNext]_vars

\* ------------------------------------------------------------------ claims on the distributors
\* select_players_num has been called in this step.
Selected == run.rpc = "select" /\ run'.rpc \in {"loop", "failed"}

\* select_players_num raised its assertion error.
SelectRejected(r) == r.rpc = "failed" /\ r.at = "select_players_num" /\ r.exc = "AssertionError"

Distributed == run.rpc = "tick" /\ run'.tick = run.tick + 1

\* The positions in a callback sequence of the calls of that name for the agent at
\* ordinal i.
CallsOf(cs, name, i) == {k \in 1..Len(cs) : cs[k].call = name /\ cs[k].agent = i}

EpisodeEndTiming ==
    [][(Distributed /\ dist.kind = "list") =>
          LET n == Len(run'.batch)
          IN  IF run'.cleared # 1..n
              THEN /\ \A i \in 1..n : CallsOf(calls', "episode_ended", i) = {}
                   /\ dist'.recorder = dist.recorder
              ELSE \A i \in 1..n :
                     /\ Cardinality(CallsOf(calls', "episode_ended", i))
                           = IF run.mode = "Training" THEN 1 ELSE 0
                     /\ dist'.recorder.rows[i] = dist.recorder.rows[i] + 1]_vars

\* Two agents in training: the first finished at tick 2, the second at tick 3, and the
\* third tick made both episode_ended calls and recorded the first row of each agent.
EpisodeEndWitness ==
    /\ dist.kind = "list"
    /\ run.mode = "Training"
    /\ run.tick = 3
    /\ run.cleared = {1, 2}
    /\ dist.agents_states[1].num_actions = 1
    /\ dist.agents_states[2].num_actions = 2
    /\ dist.recorder.rows = <<1, 1>>
    /\ CallsOf(calls, "episode_ended", 1) # {}
    /\ CallsOf(calls, "episode_ended", 2) # {}

\* The callbacks of the names given come in ascending order of the ordinals.
Ascending(cs, names) ==
    \A k1, k2 \in 1..Len(cs) :
       (k1 < k2 /\ cs[k1].call \in names /\ cs[k2].call \in names)
          => cs[k1].agent <= cs[k2].agent

\* The multi-agent distributors have answered a batch in this step.
DistributedToMany == Distributed /\ dist.kind \in {"list", "multi"}

\* C19 as stated: per-tick processing visits the ordinals in ascending order, the action
\* list has one entry for each ordinal in that order, and entry i is the no-action value
\* exactly when ordinal i had finished the episode at an earlier tick.
NoActionOnlyAfterFinishing ==
    [][(DistributedToMany /\ ~run'.none) =>
          /\ Ascending(calls', {"receive_reward", "act"})
          /\ Len(run'.actions) = Len(run'.batch)
          /\ \A i \in 1..Len(run'.actions) :
                run'.actions[i] = NoAction <=> i \in run.cleared]_vars

\* C19, amended: per-tick processing visits the ordinals in ascending order; a list is
\* returned exactly when some ordinal is still running after the tick, it has one entry
\* for each ordinal in that order, and entry i is the no-action value exactly when the
\* running flag of ordinal i was false in the batch of this tick or of an earlier one.
NoActionFromFinishingTick ==
    [][DistributedToMany =>
          /\ Ascending(calls', {"receive_reward", "act"})
          /\ Ascending(calls', {"episode_ended", "metrics"})
          /\ run'.none <=> run'.cleared = 1..Len(run'.batch)
          /\ ~run'.none =>
                /\ Len(run'.actions) = Len(run'.batch)
                /\ \A i \in 1..Len(run'.actions) :
                      run'.actions[i] = NoAction <=> i \in run'.cleared]_vars

\* A MultiLearner playing two ordinals: the running flag of the first cleared in the
\* batch of the second tick, whose action list holds no action for it and an action
\* for the second.
NoActionAtFinishingTickWitness ==
    /\ dist.kind = "multi"
    /\ run.rpc = "act"
    /\ run.tick = 2
    /\ run.cleared = {1}
    /\ dist.agents_states[1].num_actions = 1
    /\ Len(run.actions) = 2
    /\ run.actions[1] = NoAction
    /\ run.actions[2] # NoAction

\* ------------------------------------------------------------------ claims on the Runner
\* The player count selected in this step (given by the caller, or chosen by the
\* distributor) is not one of the manifest's possible player counts.
UnsupportedSelected ==
    /\ Selected
    /\ run'.num_players # <<>>
    /\ run'.num_players[1] \notin Elems(possible_players(manifest))

\* The run has failed on the selected number of players.
SelectionFailed(r) ==
    /\ r.rpc = "failed"
    /\ r.exc = "AssertionError"
    /\ r.at \in {"select_players_num", "_assert_num_players_supported"}

\* C15 as stated: if the selected number of players is not one of the manifest's
\* possible player counts, the run fails with a validation error before any message
\* has been sent to the remote.
UnsupportedFailsBeforeAnyMessage ==
    [][UnsupportedSelected => (SelectionFailed(run') /\ rSeen' = {} /\ outbox' = <<>>)]_vars

\* C15, amended: if the selected number of players is not one of the manifest's possible
\* player counts, the run fails with an assertion error once the connect message has
\* been sent and the manifest received, and before any start, action or stop message
\* is sent to the remote.
UnsupportedFailsBeforeStart ==
    [][/\ UnsupportedSelected => SelectionFailed(run')
       /\ SelectionFailed(run') =>
             /\ manifest' # "None"
             /\ rSeen' \subseteq {"connect"}
             /\ outbox' \in {<<>>, <<connect_message>>}]_vars

\* A MultiLearner run asked for three players has failed on the count after the
\* handshake: the remote has received the connect message and nothing else.
UnsupportedFailsWitness ==
    /\ dist.kind = "multi"
    /\ run.num_players = <<3>>
    /\ SelectionFailed(run)
    /\ run.at = "_assert_num_players_supported"
    /\ rSeen = {"connect"}

WorkerStep == \E w \in Workers : wpc[w] # "none" /\ wpc'[w] # wpc[w]

\* C21: the message queue is the only data shared between the two threads: a step of the
\* receive worker writes nothing but the queue (it leaves the communicator's flags and
\* residue and the whole environment alone), and the connected flags, the manifest and
\* the latest batch are never changed by a step of the worker.
QueueOnlyShared ==
    [][ /\ WorkerStep =>
              /\ cConnected' = cConnected
              /\ cRunning' = cRunning
              /\ partial' = partial
              /\ UNCHANGED envVars
        /\ (cConnected' # cConnected \/ eConnected' # eConnected
              \/ manifest' # manifest \/ states' # states) => ~WorkerStep
      ]_vars

\* ------------------------------------------------------------------ schema: ranges
\* Range bounds are drawn from -1..MaxBound, the values tested from -2..MaxBound + 1.
MaxBound == 5

Max(a, b) == IF a > b THEN a ELSE b

\* A Python number that need not be whole: the quotient n / d of two integers.
Rat(n, d) == [n |-> n, d |-> d]
RatSub(x, y) == Rat(x.n * y.d - y.n * x.d, x.d * y.d)
RatDiv(x, y) == Rat(x.n * y.d, x.d * y.n)
\* The number x is the quotient p / q.
RatIs(x, p, q) == x.n * q = p * x.d

\* A constructor that stores its operands in the order given.
Range_init_as_given(min, max) ==
    [class |-> "Range", min |-> min, max |-> max, range |-> max - min,
     half_range |-> Rat(max - min, 2), is_int |-> TRUE]

\* range.py:65-76: Range.__init__.  _range is taken from the operands as they are given.
Range_init(min, max) ==
    [class |-> "Range", min |-> Min(min, max), max |-> Max(min, max), range |-> max - min,
     half_range |-> Rat(max - min, 2), is_int |-> TRUE]

\* range.py:100-111: Range.normalize; gives the exception raised, if any, and the value.
Range_normalize(r, value, zero_centered) ==
    IF r.range = 0
    THEN [exc |-> "ZeroDivisionError", value |-> Rat(0, 1)]
    ELSE [exc |-> "ok",
          value |-> IF zero_centered
                    THEN RatDiv(RatSub(Rat(value - r.min, 1), r.half_range), r.half_range)
                    ELSE Rat(value - r.min, r.range)]

RangeBounds == -1..MaxBound
RangeValues == -2..(MaxBound + 1)

\* A caller builds Range(a, b).
Schema_Range(a, b) ==
    /\ schema.op = "none"
    /\ schema' = [op |-> "Range", obj |-> Range_init(a, b), given |-> <<a, b>>,
                  arg |-> <<>>, ret |-> <<>>]
    /\ UNCHANGED <<protocolVars, runVars>>

\* The caller calls normalize(value, zero_centered) on the range.
Schema_normalize(value, zero_centered) ==
    /\ schema.op # "none"
    /\ schema.obj.class = "Range"
    /\ schema' = [schema EXCEPT !.op = "normalize", !.arg = <<value, zero_centered>>,
                                !.ret = Range_normalize(schema.obj, value, zero_centered)]
    /\ UNCHANGED <<protocolVars, runVars>>

\* The caller calls contains(value) on the range.
Schema_contains(value) ==
    /\ schema.op # "none"
    /\ schema.obj.class = "Range"
    /\ schema' = [schema EXCEPT !.op = "contains", !.arg = <<value>>,
                                !.ret = Range_contains(schema.obj, value)]
    /\ UNCHANGED <<protocolVars, runVars>>

SchemaInit == InitBudget(0)

\* The ranges, only.
RangeNext ==
    \/ \E a, b \in RangeBounds : Schema_Range(a, b)
    \/ \E value \in RangeValues, zero_centered \in BOOLEAN :
          Schema_normalize(value, zero_centered)
    \/ \E value \in RangeValues : Schema_contains(value)

\* C22: for every Range built from two distinct bounds, in whichever order they are
\* given, normalize is defined and takes the smaller bound to 0 (to -1 when zero-centered),
\* the larger bound to 1, and the midpoint to 1/2 (to 0 when zero-centered).
RangeNormalizeEnds ==
    (schema.op = "normalize" /\ schema.given[1] # schema.given[2]) =>
        LET lo == Min(schema.given[1], schema.given[2])
            hi == Max(schema.given[1], schema.given[2])
            value == schema.arg[1]
            zero_centered == schema.arg[2]
        IN  /\ schema.ret.exc = "ok"
            /\ value = lo => RatIs(schema.ret.value, IF zero_centered THEN -1 ELSE 0, 1)
            /\ value = hi => RatIs(schema.ret.value, 1, 1)
            /\ 2 * value = lo + hi =>
                  RatIs(schema.ret.value, IF zero_centered THEN 0 ELSE 1,
                                          IF zero_centered THEN 1 ELSE 2)

\* C23: for every Range(a, b) the stored bounds are the smaller and the larger operand,
\* so min <= max, and contains(v) holds exactly when min(a, b) <= v <= max(a, b), both
\* bounds included.
RangeContainsInclusive ==
    (schema.op # "none" /\ schema.obj.class = "Range") =>
        LET lo == Min(schema.given[1], schema.given[2])
            hi == Max(schema.given[1], schema.given[2])
        IN  /\ schema.obj.min <= schema.obj.max
            /\ schema.obj.min = lo
            /\ schema.obj.max = hi
            /\ schema.op = "contains" =>
                  (schema.ret <=> (lo <= schema.arg[1] /\ schema.arg[1] <= hi))

\* Range(5, 1) has answered that it contains its smaller bound 1.
RangeContainsWitness ==
    /\ schema.op = "contains"
    /\ schema.given = <<5, 1>>
    /\ schema.arg = <<1>>
    /\ schema.ret = TRUE

\* ------------------------------------------------------------------ schema: JSON
\* A Python object is a record with a field class, a JSON-like dictionary a record whose
\* fields are its keys.  Longest list of ranges a value definition is built from.
MaxLen == 2

\* range.py:176-178: UnboundRange.__init__ (its bounds are infinite and never compared)
UnboundRange_init == [class |-> "UnboundRange"]

\* range.py:228-229: BoolRange.__init__
BoolRange_init ==
    [class |-> "BoolRange", min |-> 0, max |-> 1, range |-> 1, half_range |-> Rat(1, 2),
     is_int |-> TRUE]

\* range.py:152-161: UnboundRange.instance
UnboundRange_instance == UnboundRange_init

\* range.py:204-213: BoolRange.instance makes an UnboundRange
BoolRange_instance == UnboundRange_init

\* range.py:131-139, 190-191, 238-239: to_json of the range classes
Range_to_json(r) ==
    IF r.class = "Range" THEN [type |-> "Range", min |-> r.min, max |-> r.max]
    ELSE [type |-> r.class]

\* range.py:11-12 with the @range_definition lines 27, 145, 197
range_classes_names == <<"Range", "UnboundRange", "BoolRange">>

\* Subscripting with 'type' works on a dictionary that has the key: an object of the
\* schema classes is not subscriptable (TypeError), a missing key is a KeyError.
Subscript(json, key) ==
    IF "class" \in DOMAIN json THEN "TypeError"
    ELSE IF key \notin DOMAIN json THEN "KeyError"
    ELSE "ok"

\* range.py:245-258 with 52-63, 163-174 and 215-226: from_json of the module and of the
\* class it finds; gives the exception raised, if any, and the object built.
Range_from_json(json) ==
    IF Subscript(json, "type") # "ok" THEN [exc |-> Subscript(json, "type"), obj |-> <<>>]
    ELSE IF json.type \notin Elems(range_classes_names)
    THEN [exc |-> "ValueError", obj |-> <<>>]
    ELSE IF json.type = "Range"
    THEN IF Subscript(json, "min") # "ok" \/ Subscript(json, "max") # "ok"
         THEN [exc |-> "KeyError", obj |-> <<>>]
         ELSE [exc |-> "ok", obj |-> Range_init(json.min, json.max)]
    ELSE IF json.type = "UnboundRange"
    THEN [exc |-> "ok", obj |-> UnboundRange_instance]
    ELSE [exc |-> "ok", obj |-> BoolRange_instance]

\* A Python class used as an element type.
PyType(name) == [pytype |-> name]

\* value.py:126: TypedList.supported_types
supported_types == [k \in {"int", "float", "bool"} |-> PyType(k)]

\* value.py:145-166: TypedList.__init__ for the class cls (its assertions hold: as many
\* types as ranges, every type supported)
TypedList_init(cls, types, ranges, description) ==
    [class |-> cls, types |-> types, ranges |-> ranges, description |-> description,
     size |-> Len(ranges)]

\* value.py:239-252: _SingleTypeList.__init__
SingleTypeList_init(cls, element_type, ranges, description) ==
    [class |-> cls, types |-> [i \in 1..Len(ranges) |-> element_type], ranges |-> ranges,
     description |-> description, size |-> Len(ranges), element_type |-> element_type]

\* value.py:297-306: IntList.__init__
IntList_init(ranges, description) ==
    SingleTypeList_init("IntList", PyType("int"), ranges, description)

\* value.py:347-356: FloatList.__init__
FloatList_init(ranges, description) ==
    SingleTypeList_init("FloatList", PyType("float"), ranges, description)

\* value.py:378-386: BoolList.__init__
BoolList_init(size, description) ==
    SingleTypeList_init("BoolList", PyType("bool"), [i \in 1..size |-> BoolRange_instance],
                        description)

\* value.py:400-410: _SingleValue.__init__
SingleValue_init(cls, element_type, range, description) ==
    [class |-> cls, element_type |-> element_type, range |-> range,
     description |-> description]

\* value.py:471-477: IntValue.__init__
IntValue_init(range, description) == SingleValue_init("IntValue", PyType("int"), range, description)

\* value.py:506-513: FloatValue.__init__
FloatValue_init(range, description) ==
    SingleValue_init("FloatValue", PyType("float"), range, description)

\* value.py:538-545: BoolValue.__init__
BoolValue_init(description) ==
    SingleValue_init("BoolValue", PyType("bool"), BoolRange_instance, description)

\* value.py:597-615: PixelList.__init__
PixelList_init(width, height, channels, range, data_type, description) ==
    [class |-> "PixelList", width |-> width, height |-> height, channels |-> channels,
     range |-> range, data_type |-> data_type, description |-> description]

\* value.py:564-567: PixelList.DEFINED_RANGES
DEFINED_RANGES ==
    [k \in {"bit8", "normalized"} |->
        IF k = "bit8" THEN <<Range_init(0, 255), "uint8">> ELSE <<Range_init(0, 1), "float">>]

ListClasses == {"TypedList", "IntList", "FloatList", "BoolList"}
SingleClasses == {"IntValue", "FloatValue", "BoolValue"}

\* value.py:215-223: _get_types_strings
get_types_strings(types) ==
    [i \in 1..Len(types) |->
        CHOOSE k \in DOMAIN supported_types : supported_types[k] = types[i]]

\* value.py:208-213, 479-484, 515-520, 547-552 and 651-658: to_json of the value classes.
\* PixelList.to_json puts the Range object itself under 'range'.
Value_to_json(x) ==
    IF x.class \in ListClasses
    THEN [type |-> x.class, types |-> get_types_strings(x.types),
          ranges |-> [i \in 1..Len(x.ranges) |-> Range_to_json(x.ranges[i])],
          description |-> x.description]
    ELSE IF x.class \in SingleClasses
    THEN [type |-> x.class, range |-> Range_to_json(x.range), description |-> x.description]
    ELSE [type |-> x.class, width |-> x.width, height |-> x.height, channels |-> x.channels,
          description |-> x.description, range |-> x.range]

\* value.py:102-103 with the @value_definition lines 119, 265, 315, 359, 452, 487, 523, 555
values_classes_names ==
    <<"TypedList", "IntList", "FloatList", "BoolList", "IntValue", "FloatValue", "BoolValue",
      "PixelList">>

\* value.py:141, 295, 345: the ranges parsed from a list of dictionaries, or the first
\* exception raised on the way.
ranges_from_json(jsons) ==
    LET rs == [i \in 1..Len(jsons) |-> Range_from_json(jsons[i])]
        bad == {i \in 1..Len(jsons) : rs[i].exc # "ok"}
    IN  IF bad # {}
        THEN [exc |-> rs[CHOOSE i \in bad : \A j \in bad : i <= j].exc, obj |-> <<>>]
        ELSE [exc |-> "ok", obj |-> [i \in 1..Len(jsons) |-> rs[i].obj]]

\* value.py:661-674 with the from_json of the class it finds (128-142, 284-295, 334-345,
\* 365-376, 458-469, 493-504, 525-536, 569-595); gives the exception raised, if any, and
\* the object built.
Value_from_json(json) ==
    IF Subscript(json, "type") # "ok" THEN [exc |-> Subscript(json, "type"), obj |-> <<>>]
    ELSE IF json.type \notin Elems(values_classes_names)
    THEN [exc |-> "ValueError", obj |-> <<>>]
    ELSE IF json.type = "TypedList"
    THEN IF \E i \in 1..Len(json.types) : json.types[i] \notin DOMAIN supported_types
         THEN [exc |-> "KeyError", obj |-> <<>>]
         ELSE LET rs == ranges_from_json(json.ranges)
              IN  IF rs.exc # "ok" THEN rs
                  ELSE IF Len(json.types) # Len(rs.obj)
                  THEN [exc |-> "AssertionError", obj |-> <<>>]
                  ELSE [exc |-> "ok",
                        obj |-> TypedList_init("TypedList",
                                    [i \in 1..Len(json.types) |-> supported_types[json.types[i]]],
                                    rs.obj, json.description)]
    ELSE IF json.type \in {"IntList", "FloatList"}
    THEN LET rs == ranges_from_json(json.ranges)
         IN  IF rs.exc # "ok" THEN rs
             ELSE [exc |-> "ok",
                   obj |-> IF json.type = "IntList" THEN IntList_init(rs.obj, json.description)
                           ELSE FloatList_init(rs.obj, json.description)]
    ELSE IF json.type = "BoolList"
    THEN IF Subscript(json, "size") # "ok" THEN [exc |-> "KeyError", obj |-> <<>>]
         ELSE [exc |-> "ok", obj |-> BoolList_init(json.size, json.description)]
    ELSE IF json.type \in {"IntValue", "FloatValue"}
    THEN LET r == Range_from_json(json.range)
         IN  IF r.exc # "ok" THEN r
             ELSE [exc |-> "ok",
                   obj |-> IF json.type = "IntValue" THEN IntValue_init(r.obj, json.description)
                           ELSE FloatValue_init(r.obj, json.description)]
    ELSE IF json.type = "BoolValue"
    THEN [exc |-> "ok", obj |-> BoolValue_init(json.description)]
    ELSE IF "channel_range" \in DOMAIN json /\ json.channel_range # "None"
    THEN IF json.channel_range \notin DOMAIN DEFINED_RANGES
         THEN [exc |-> "KeyError", obj |-> <<>>]
         ELSE [exc |-> "ok",
               obj |-> PixelList_init(json.width, json.height, json.channels,
                                      DEFINED_RANGES[json.channel_range][1],
                                      DEFINED_RANGES[json.channel_range][2],
                                      json.description)]
    ELSE LET r == Range_from_json(json.range)
         IN  IF r.exc # "ok" THEN r
             ELSE [exc |-> "ok",
                   obj |-> PixelList_init(json.width, json.height, json.channels, r.obj,
                                          "float", json.description)]

\* ------------------------------------------------------------------ schema: containment
\* A Python value handed to contains: a number [t, v] (t is "int", "float" or "bool";
\* True is [t |-> "bool", v |-> 1]), a list [t |-> "list", items] of numbers, or a
\* generator, which can be iterated but has no len().
BoolVal(b) == [t |-> "bool", v |-> IF b THEN 1 ELSE 0]
ListVal(items) == [t |-> "list", items |-> items]
GeneratorVal(items) == [t |-> "generator", items |-> items]

\* isinstance(value, cls) for the classes int, float and bool: a bool is an int.
isinstance(value, cls) ==
    value.t = cls.pytype \/ (cls.pytype = "int" /\ value.t = "bool")

\* range.py:78-85, 180-181 and 231-232: contains of the class of the range r, for a number
any_Range_contains(r, value) ==
    IF r.class = "UnboundRange" THEN value.t \in {"int", "float", "bool"}
    ELSE IF r.class = "BoolRange" THEN value.t = "bool"
    ELSE Range_contains(r, value.v)

\* A contains that does not compare the lengths.
TypedList_contains_any_len(x, value) ==
    IF value.t \notin {"list", "generator"} THEN [exc |-> "ok", value |-> FALSE]
    ELSE IF value.t = "generator" THEN [exc |-> "TypeError", value |-> FALSE]
    ELSE LET n == Min(x.size, Len(value.items))
         IN  IF ~\A i \in 1..n : isinstance(value.items[i], x.types[i])
             THEN [exc |-> "ok", value |-> FALSE]
             ELSE [exc |-> "ok",
                   value |-> \A i \in 1..n : any_Range_contains(x.ranges[i], value.items[i])]

\* value.py:168-178: TypedList.contains.  The first test lets through whatever is Iterable
\* or Sized; len() of a generator raises TypeError.
TypedList_contains(x, value) ==
    IF value.t \notin {"list", "generator"} THEN [exc |-> "ok", value |-> FALSE]
    ELSE IF value.t = "generator" THEN [exc |-> "TypeError", value |-> FALSE]
    ELSE IF Len(value.items) # x.size THEN [exc |-> "ok", value |-> FALSE]
    ELSE IF ~\A i \in 1..x.size : isinstance(value.items[i], x.types[i])
    THEN [exc |-> "ok", value |-> FALSE]
    ELSE [exc |-> "ok",
          value |-> \A i \in 1..x.size : any_Range_contains(x.ranges[i], value.items[i])]

\* value.py:412-416: _SingleValue.contains
SingleValue_contains(x, value) ==
    IF value.t \in {"list", "generator"} \/ ~isinstance(value, x.element_type)
    THEN [exc |-> "ok", value |-> FALSE]
    ELSE [exc |-> "ok", value |-> any_Range_contains(x.range, value)]

\* value.py:617-618: PixelList.contains reads _channel_range, which is never set
PixelList_contains(x, value) == [exc |-> "AttributeError", value |-> FALSE]

\* contains of the class of the value definition x
Value_contains(x, value) ==
    IF x.class \in ListClasses THEN TypedList_contains(x, value)
    ELSE IF x.class \in SingleClasses THEN SingleValue_contains(x, value)
    ELSE PixelList_contains(x, value)

\* The numbers and the values handed to contains.
PyNumbers == {IntAction(0), IntAction(3), IntAction(6), FloatAction(3), BoolVal(TRUE)}
PyValues ==
    PyNumbers
    \cup {ListVal(items) : items \in UNION {[1..k -> PyNumbers] : k \in 0..MaxLen}}
    \cup {GeneratorVal(<<IntAction(3)>>)}

\* ------------------------------------------------------------------ schema: the calls
RangeClasses == Elems(range_classes_names)

Descriptions == {"None", "text"}

\* The ranges value definitions are built from here, and the lists of them.
ValueRanges == {Range_init(1, 5), UnboundRange_init}
RangeLists == UNION {[1..k -> ValueRanges] : k \in 0..MaxLen}

\* The schema objects a caller builds besides Range(a, b): the other two range classes and
\* the registered value definitions.
SchemaObjects ==
    {UnboundRange_init, BoolRange_init}
    \cup {IntValue_init(r, d) : r \in ValueRanges, d \in Descriptions}
    \cup {FloatValue_init(r, d) : r \in ValueRanges, d \in Descriptions}
    \cup {BoolValue_init(d) : d \in Descriptions}
    \cup {IntList_init(rs, d) : rs \in RangeLists, d \in Descriptions}
    \cup {FloatList_init(rs, d) : rs \in RangeLists, d \in Descriptions}
    \cup {BoolList_init(n, d) : n \in 0..MaxLen, d \in Descriptions}
    \cup UNION {{TypedList_init("TypedList", ts, rs, d) :
                    ts \in [1..Len(rs) -> {PyType("int"), PyType("float"), PyType("bool")}],
                    d \in Descriptions} : rs \in RangeLists}
    \cup {PixelList_init(1, 1, 1, r, "float", d) : r \in ValueRanges, d \in Descriptions}

\* A caller builds one of the other schema objects.
Schema_new(obj) ==
    /\ schema.op = "none"
    /\ schema' = [op |-> "new", obj |-> obj, given |-> <<>>, arg |-> <<>>, ret |-> <<>>]
    /\ UNCHANGED <<protocolVars, runVars>>

\* The caller calls to_json() on the object.
Schema_to_json ==
    /\ schema.op # "none"
    /\ schema' = [schema EXCEPT !.op = "to_json", !.arg = <<>>,
                                !.ret = IF schema.obj.class \in RangeClasses
                                        THEN Range_to_json(schema.obj)
                                        ELSE Value_to_json(schema.obj)]
    /\ UNCHANGED <<protocolVars, runVars>>

\* The caller hands the dictionary to from_json of the module the object came from.
Schema_from_json ==
    /\ schema.op = "to_json"
    /\ schema' = [schema EXCEPT !.op = "from_json", !.arg = <<schema.ret>>,
                                !.ret = IF schema.obj.class \in RangeClasses
                                        THEN Range_from_json(schema.ret)
                                        ELSE Value_from_json(schema.ret)]
    /\ UNCHANGED <<protocolVars, runVars>>

\* The caller calls contains(value) on the value definition.
Schema_Value_contains(value) ==
    /\ schema.op # "none"
    /\ schema.obj.class \notin RangeClasses
    /\ schema' = [schema EXCEPT !.op = "value_contains", !.arg = <<value>>,
                                !.ret = Value_contains(schema.obj, value)]
    /\ UNCHANGED <<protocolVars, runVars>>

SchemaNext ==
    \/ RangeNext
    \/ \E obj \in SchemaObjects : Schema_new(obj)
    \/ Schema_to_json
    \/ Schema_from_json
    \/ \E value \in PyValues : Schema_Value_contains(value)

SpecSchema == SchemaInit /\ [][SchemaNext]_vars

\* Two ranges are of the same class, with the same bounds.
SameRange(r1, r2) ==
    /\ r1.class = r2.class
    /\ r1.class = "Range" => (r1.min = r2.min /\ r1.max = r2.max)

\* Two schema objects are equivalent: same class, same ranges, same element types and
\* the same description.
Equivalent(x, y) ==
    /\ x.class = y.class
    /\ IF x.class \in RangeClasses THEN SameRange(x, y)
       ELSE /\ x.description = y.description
            /\ IF x.class \in ListClasses
               THEN /\ x.types = y.types
                    /\ Len(x.ranges) = Len(y.ranges)
                    /\ \A i \in 1..Len(x.ranges) : SameRange(x.ranges[i], y.ranges[i])
               ELSE IF x.class \in SingleClasses
               THEN x.element_type = y.element_type /\ SameRange(x.range, y.range)
               ELSE /\ <<x.width, x.height, x.channels>> = <<y.width, y.height, y.channels>>
                    /\ SameRange(x.range, y.range)

\* C24: for every registered Value variant and Range variant, from_json(x.to_json())
\* succeeds and gives an object equivalent to x.
SchemaJsonRoundTrip ==
    schema.op = "from_json" =>
        (schema.ret.exc = "ok" /\ Equivalent(schema.obj, schema.ret.obj))

\* The variants whose round trip does succeed: every one but BoolRange, BoolList and
\* PixelList.
SchemaJsonRoundTripOthers ==
    (schema.op = "from_json" /\ schema.obj.class \notin {"BoolRange", "BoolList", "PixelList"})
        => (schema.ret.exc = "ok" /\ Equivalent(schema.obj, schema.ret.obj))

StateMessages(msgs) == {i \in 1..Len(msgs) : message_type(msgs[i]) = "state"}

\* The last state message of a list that holds one.
LastStateMessage(msgs) ==
    msgs[CHOOSE i \in StateMessages(msgs) : \A j \in StateMessages(msgs) : j <= i]

\* C26: a drain that returns more than one state message (and besides them nothing but
\* manifest messages) raises no error, and the batch it installs is the one of the last
\* state message in arrival order.
LastStateWins ==
    [][ ( /\ DrainReturns
          /\ Cardinality(StateMessages(Drained)) >= 2
          /\ \A i \in 1..Len(Drained) : message_type(Drained[i]) \in {"state", "manifest"} ) =>
            /\ result'[2] \in {"ok", "running"}
            /\ states' = LastStateMessage(Drained)[2]
            /\ statesReady'
            /\ hist'.num_state_messages = Cardinality(StateMessages(Drained))
      ]_vars

\* reset() returned at a drain in which _parse_messages counted two state messages, the
\* first of an episode that was running, the last of one that had ended: the batch in
\* place is the last.
LastStateWinsWitness ==
    /\ result = <<"reset", "ok">>
    /\ hist.num_state_messages = 2
    /\ hist.installed
    /\ statesReady
    /\ states = "state2"
    /\ queue = <<>>
    /\ wire = <<>>
    /\ budget = 0

\* ------------------------------------------------------------------ unhandled tags
\* The program with a remote that also sends messages whose tag is not one of
\* IncomingMessageTypes.
TagsNext ==
    \/ Next({1})
    \/ \E atom \in OtherTags : RemoteSend(atom)

SpecTags == Init /\ [][TagsNext]_vars

\* The tags _parse_messages is written to handle.
HandledTags == {"state", "manifest", "disconnected"}

\* The positions of the messages of a list that carry a type tag outside HandledTags.
Unhandled(msgs) ==
    {i \in 1..Len(msgs) : message_type(msgs[i]) \notin HandledTags \cup {"KeyError"}}

FirstUnhandled(msgs) == CHOOSE i \in Unhandled(msgs) : \A j \in Unhandled(msgs) : i <= j

\* C27: a drain whose list holds a message with a tag other than state, manifest and
\* disconnected (with no disconnected message before it) ends the operation with an
\* error, and the batch, its ready flag and the running flag are as before the drain; the
\* manifest and the connected flag change only if a manifest message precedes it.
UnhandledTagFails ==
    [][ ( /\ DrainReturns
          /\ Unhandled(Drained) # {}
          /\ \A i \in 1..FirstUnhandled(Drained) :
                message_type(Drained[i]) \notin {"disconnected", "KeyError"} ) =>
            /\ result'[2] \notin {"ok", "running"}
            /\ pc' = "idle"
            /\ states' = states
            /\ statesReady' = statesReady
            /\ eRunning' = eRunning
            /\ (\A i \in 1..FirstUnhandled(Drained) : message_type(Drained[i]) # "manifest")
                  => UNCHANGED envVars
      ]_vars

\* ------------------------------------------------------------------ after Disconnected
\* A message of the given type is sent in this step.
Sends(type) == outbox' # outbox /\ \E i \in 1..Len(outbox') : outbox'[i].type = type

\* C28: once the environment has processed a disconnected message, no step of a later
\* operation makes it connected again and no connect or start message is sent.
DisconnectedIsTerminal ==
    [][ hist.disconnected => (~eConnected' /\ ~Sends("connect") /\ ~Sends("start")) ]_vars

\* ------------------------------------------------------------------ finished agents
\* The distributor driven as before, with a remote that may report anything for every
\* player, one whose episode has ended included.
DistAnyNext ==
    \/ Run_select /\ UNCHANGED protocolVars
    \/ Run_start_episode /\ UNCHANGED protocolVars
    \/ Run_initialize_episode /\ UNCHANGED protocolVars
    \/ \E batch \in StatesInfos(Len(dist.agents_states)) :
          Run_distribute(batch) /\ UNCHANGED protocolVars
    \/ Run_episode_ended /\ UNCHANGED protocolVars
    \/ Run_return /\ UNCHANGED protocolVars
    \/ Dist_environment /\ UNCHANGED protocolVars

SpecDistAny == DistInit /\ [][DistAnyNext]_vars

\* C29: an agent whose record is not running is left alone: no step but the start of
\* the next episode changes its record, and a tick makes no act and no receive_reward
\* call on it and returns no action for it.
FinishedAgentLeftAlone ==
    [][ \A i \in 1..Len(dist.agents_states) :
          ~dist.agents_states[i].running =>
            /\ run.rpc # "initialize_episode" =>
                  /\ Len(dist'.agents_states) = Len(dist.agents_states)
                  /\ dist'.agents_states[i] = dist.agents_states[i]
            /\ Distributed =>
                  /\ CallsOf(calls', "act", i) = {}
                  /\ CallsOf(calls', "receive_reward", i) = {}
                  /\ ~run'.none => run'.actions[i] = NoAction
      ]_vars

\* In training, the first of two agents had finished with no reward when a later batch
\* reported it running again with a reward: its record is as it was, no call was made on
\* it, and the list of actions holds no action for it.
FinishedAgentWitness ==
    /\ run.mode = "Training"
    /\ run.rpc = "act"
    /\ run.tick = 3
    /\ Len(run.batch) = 2
    /\ run.batch[1].running
    /\ run.batch[1].accumulated_reward = 2
    /\ ~dist.agents_states[1].running
    /\ dist.agents_states[1].accumulated_reward = 0
    /\ dist.agents_states[1].num_actions = 1
    /\ run.actions[1] = NoAction
    /\ run.actions[2] # NoAction
    /\ CallsOf(calls, "act", 1) = {}
    /\ CallsOf(calls, "receive_reward", 1) = {}
    /\ CallsOf(calls, "receive_reward", 2) # {}

\* C30: at every tick, act() is called once on an agent whose record is running and
\* whose incoming running flag is set, and is not called on any other: never with a
\* terminal state.
ActOnlyWhileRunning ==
    [][ Distributed =>
          \A i \in 1..Len(run'.batch) :
             Cardinality(CallsOf(calls', "act", i)) =
                IF i <= Len(dist.agents_states) /\ dist.agents_states[i].running
                      /\ run'.batch[i].running
                THEN 1 ELSE 0
      ]_vars

\* A tick of two agents, both with a running record: the first was given a state with
\* the running flag set and was asked to act once, the second was given a terminal state
\* and was not asked.
ActOnlyWhileRunningWitness ==
    /\ run.rpc = "act"
    /\ run.tick = 1
    /\ Len(run.batch) = 2
    /\ run.batch[1].running
    /\ ~run.batch[2].running
    /\ Cardinality(CallsOf(calls, "act", 1)) = 1
    /\ CallsOf(calls, "act", 2) = {}
    /\ dist.agents_states[1].running
    /\ dist.agents_states[1].num_actions = 1
    /\ ~dist.agents_states[2].running
    /\ dist.agents_states[2].num_actions = 0

\* ------------------------------------------------------------------ the life of a record
\* A record as _AgentRunningState.__init__ makes it.
Fresh(agent_state) == agent_state = AgentRunningState

\* C31: the running flag of a record, once false, stays false until initialize_episode;
\* the elapsed time is taken exactly when the flag is cleared, by one call of ended() at
\* the tick whose incoming flag is the first that is false, and at no other step; every
\* episode_ended callback for an agent comes after the ended() of its record; and
\* initialize_episode leaves nothing but fresh records.
RecordLifecycle ==
    [][ /\ \A i \in 1..Len(dist.agents_states) :
              LET rec == dist.agents_states[i]
              IN  /\ rec.episode_time = "set" <=> ~rec.running
                  /\ (~rec.running /\ run.rpc # "initialize_episode") =>
                        (i <= Len(dist'.agents_states) /\ ~dist'.agents_states[i].running)
                  /\ (rec.running /\ ~Distributed /\ run.rpc # "initialize_episode") =>
                        (i <= Len(dist'.agents_states) /\ dist'.agents_states[i] = rec)
                  /\ Distributed =>
                       /\ Cardinality(CallsOf(calls', "ended", i)) =
                             IF i <= Len(run'.batch) /\ rec.running /\ ~run'.batch[i].running
                             THEN 1 ELSE 0
                       /\ dist'.agents_states[i].running =
                             (rec.running /\ (i <= Len(run'.batch) => run'.batch[i].running))
                       /\ \A k \in CallsOf(calls', "episode_ended", i) :
                             /\ dist'.agents_states[i].episode_time = "set"
                             /\ \A e \in CallsOf(calls', "ended", i) : e < k
        /\ (run.rpc = "initialize_episode" /\ run'.rpc # "failed") =>
              /\ dist'.agents_states # <<>>
              /\ \A i \in 1..Len(dist'.agents_states) : Fresh(dist'.agents_states[i])
      ]_vars

\* Training two learners: the first finished at the first tick, the second at the
\* second, where ended() was called for the second only and then episode_ended for both.
RecordLifecycleWitness ==
    /\ run.mode = "Training"
    /\ dist.kind = "list"
    /\ run.rpc = "tick"
    /\ run.tick = 2
    /\ Len(dist.agents_states) = 2
    /\ \A i \in 1..2 : dist.agents_states[i].episode_time = "set"
    /\ dist.agents_states[1].num_actions = 0
    /\ dist.agents_states[2].num_actions = 1
    /\ CallsOf(calls, "ended", 1) = {}
    /\ Cardinality(CallsOf(calls, "ended", 2)) = 1
    /\ \A i \in 1..2 : \E k \in CallsOf(calls, "episode_ended", i) :
          \A e \in CallsOf(calls, "ended", 2) : e < k

\* ------------------------------------------------------------------ the acting player
\* The calls a MultiLearner takes for the player that acts.
PlayerCalls == {"act", "receive_reward", "episode_ended"}

\* The positions before k of the set_acting_player calls in a callback sequence.
ActingBefore(cs, k) == {j \in 1..(k - 1) : cs[j].call = "set_acting_player"}

\* C32: with a MultiLearnerDistributor, every act, receive_reward and episode_ended call
\* follows a set_acting_player call, and the latest such call before it names its own
\* ordinal; every ordinal's tick begins with set_acting_player for it; and
\* initialize_episode calls set_players once, with one player for each record, before
\* episode_started, which no other step calls.
ActingPlayerSet ==
    [][ dist.kind = "multi" =>
          /\ Distributed =>
               /\ \A k \in 1..Len(calls') :
                     calls'[k].call \in PlayerCalls =>
                        /\ ActingBefore(calls', k) # {}
                        /\ LET j == CHOOSE a \in ActingBefore(calls', k) :
                                       \A b \in ActingBefore(calls', k) : b <= a
                           IN  calls'[j].agent = calls'[k].agent
               /\ \A i \in 1..Len(run'.batch) :
                     /\ CallsOf(calls', "set_acting_player", i) # {}
                     /\ \A k \in CallsOf(calls', "act", i) \cup CallsOf(calls', "receive_reward", i) :
                           \E j \in CallsOf(calls', "set_acting_player", i) : j < k
          /\ (run.rpc = "initialize_episode" /\ run'.rpc # "failed") =>
                calls' = <<Call("set_players", Len(dist'.agents_states), 0, 0),
                           episode_started(0, run'.episode)>>
          /\ run.rpc # "initialize_episode" =>
                \A k \in 1..Len(calls') : calls'[k].call # "set_players"
      ]_vars

\* Training a MultiLearner with two players whose episodes end at the same tick: each
\* receive_reward and each episode_ended comes right after set_acting_player for its
\* ordinal.
ActingPlayerWitness ==
    /\ dist.kind = "multi"
    /\ run.mode = "Training"
    /\ run.rpc = "tick"
    /\ run.tick = 2
    /\ Len(calls) = 13
    /\ calls[1] = Call("set_acting_player", 1, 0, 0)
    /\ calls[2].call = "receive_reward" /\ calls[2].agent = 1
    /\ calls[4] = Call("set_acting_player", 2, 0, 0)
    /\ calls[5].call = "receive_reward" /\ calls[5].agent = 2
    /\ calls[7] = Call("set_acting_player", 1, 0, 0)
    /\ calls[8].call = "episode_ended" /\ calls[8].agent = 1
    /\ calls[10] = Call("set_acting_player", 2, 0, 0)
    /\ calls[11].call = "episode_ended" /\ calls[11].agent = 2

\* ------------------------------------------------------------------ claims on the episode loop
\* The driver itself takes a step, other than being interrupted.
DriverStep == run' # run /\ run'.rpc # "interrupted"

\* C33: at the test of the inner loop the driver goes on exactly when some agent's
\* episode is running; a turn of the loop hands the environment's current batch to the
\* distributor once, and calls act() next, once and with the list returned, exactly when
\* a list was returned; the loop ends without a message being sent, and no stop message
\* is sent anywhere but in the handler of an interrupt.
EpisodeLoop ==
    [][ /\ (run.rpc = "tick" /\ DriverStep) =>
             /\ outbox' = outbox
             /\ pc' = pc
             /\ IF is_episode_running(dist)
                THEN /\ run'.rpc # "loop"
                     /\ run'.rpc # "failed" =>
                           /\ Distributed
                           /\ run'.batch = StatesInfo_of(obtain_states(EnvRec),
                                                         Len(dist.agents_states))
                           /\ run'.rpc = (IF run'.none THEN "tick" ELSE "act")
                ELSE run'.rpc = "loop" /\ dist' = dist
        /\ (run.rpc = "act" /\ DriverStep) =>
             /\ run'.rpc = "act_wait"
             /\ result'[1] = "act"
             /\ result'[2] \in {"ok", "running"} => outbox' = <<action_message(run.actions)>>
        /\ (run.rpc = "act_wait" /\ DriverStep) => run'.rpc \in {"tick", "returned", "failed"}
        /\ (result'[1] = "act" /\ result[1] # "act") => run.rpc = "act"
        /\ Sends("action") => (run.rpc = "act" /\ ~run.none)
        /\ Sends("stop") => run.rpc = "interrupted"
      ]_vars

\* An episode of one agent has ended at its second tick: the first tick returned an
\* action, which act() sent, the second returned none, and the loop has ended with the
\* action message the last one sent.
EpisodeLoopWitness ==
    /\ run.rpc = "loop"
    /\ run.episode = 1
    /\ run.tick = 2
    /\ run.none
    /\ ~is_episode_running(dist)
    /\ result = <<"act", "ok">>
    /\ Len(outbox) = 1
    /\ outbox[1].type = "action"

\* ------------------------------------------------------------------ the metrics of one agent
\* The rows passed to add_episode_metrics in a callback sequence.
RowsAdded(cs) == {k \in 1..Len(cs) : cs[k].call = "add_episode_metrics"}

\* C34: with a SingleAgentDistributor under the driver, the tick at which the agent's
\* running flag clears, and no other step, appends one row; the row holds the elapsed
\* time, the number of ticks of the episode that returned an action, and the accumulated
\* reward of the batch of that tick; in training that tick, and no other step, calls
\* episode_ended once, before the row is appended, and when playing nothing calls it.
SingleAgentMetrics ==
    [][ dist.kind = "single" =>
          IF Distributed /\ ~run'.batch[1].running
          THEN /\ dist.agents_states[1].running /\ ~dist'.agents_states[1].running
               /\ dist'.recorder.rows = <<dist.recorder.rows[1] + 1>>
               /\ \E k \in 1..Len(calls') :
                     /\ RowsAdded(calls') = {k}
                     /\ calls'[k].metrics =
                           <<"set", run'.tick - 1, run'.batch[1].accumulated_reward>>
                     /\ IF run.mode = "Training"
                        THEN \E e \in 1..(k - 1) :
                                /\ CallsOf(calls', "episode_ended", 1) = {e}
                                /\ calls'[e].accumulated = run'.batch[1].accumulated_reward
                        ELSE CallsOf(calls', "episode_ended", 1) = {}
          ELSE /\ dist.recorder.made => dist'.recorder = dist.recorder
               /\ calls' # calls =>
                     (RowsAdded(calls') = {} /\ CallsOf(calls', "episode_ended", 1) = {})
      ]_vars

\* Training one learner: the first episode has ended at its second tick, after one
\* action; episode_ended was called and the row appended holds one action and the reward
\* of the last batch.
SingleAgentMetricsWitness ==
    /\ dist.kind = "single"
    /\ run.mode = "Training"
    /\ run.rpc = "tick"
    /\ run.episode = 1
    /\ run.tick = 2
    /\ dist.recorder.rows = <<1>>
    /\ \E k \in RowsAdded(calls) : calls[k].metrics = <<"set", 1, 1>>
    /\ CallsOf(calls, "episode_ended", 1) # {}

\* ------------------------------------------------------------------ reward adapters
\* C35: in training with reward adapters, every receive_reward call gets the adapters
\* applied to the difference between the accumulated reward of this tick and that of the
\* agent's previous tick, both as the environment reported them.
AdaptedRewardDelta ==
    [][ (Distributed /\ run.mode = "Training" /\ dist.reward_adapters # "None") =>
          \A i \in 1..Len(run'.batch) :
             \A k \in CallsOf(calls', "receive_reward", i) :
                calls'[k].reward =
                   adapt_object(run'.batch[i].accumulated_reward
                                   - run.batch[i].accumulated_reward,
                                dist.reward_adapters)
      ]_vars

\* ------------------------------------------------------------------ cancellation
\* communication.py:354-358: TCPConnection.close() on the socket connect() has made.
TCPConnection_close == "closed"

\* communication.py:96-101: Communicator.stop(), called by the orchestration thread
\* between two operations of the environment, on a connection the remote has not closed
\* (one it has closed ends the worker by itself, see WorkerRecvDisconnected).
Comm_stop ==
    /\ pc = "idle"
    /\ sock = "open"
    /\ cRunning' = FALSE
    /\ sock' = TCPConnection_close
    /\ UNCHANGED <<cConnected, queue, partial, wpc, wire, outbox, rest, budget, rSeen,
                   envVars, pc, messages, result, stream, delivered, returned, hist>>
    /\ UNCHANGED <<runVars, schema>>

\* communication.py:111-117: Communicator.disconnect().
Comm_disconnect ==
    /\ pc = "idle"
    /\ sock = "open"
    /\ cRunning' = FALSE
    /\ cConnected' = FALSE
    /\ sock' = TCPConnection_close
    /\ UNCHANGED <<queue, partial, wpc, wire, outbox, rest, budget, rSeen, envVars, pc,
                   messages, result, stream, delivered, returned, hist>>
    /\ UNCHANGED <<runVars, schema>>

\* communication.py:329-341 on a socket another thread has closed.  What happens to the
\* receive in progress is up to the platform: it may stay blocked (no step), end with
\* an OSError, which neither recv() nor update() catches, so that the thread ends, or
\* end as a closed connection does, with Disconnected.
WorkerRecvClosed(w) ==
    /\ wpc[w] = "recv"
    /\ sock = TCPConnection_close
    /\ \/ /\ wpc' = [wpc EXCEPT ![w] = "none"]
          /\ UNCHANGED <<cConnected, queue, hist>>
       \/ /\ cConnected' = FALSE
          /\ queue' = report_disconnected(queue)
          /\ wpc' = [wpc EXCEPT ![w] = "except"]
          /\ hist' = [hist EXCEPT !.caught = @ \cup {w},
                                  !.discPut = @ + (Len(queue') - Len(queue))]
    /\ UNCHANGED <<cRunning, partial, sock, wire, outbox, rest, budget, rSeen, envVars,
                   pc, messages, result, stream, delivered, returned>>
    /\ UNCHANGED <<runVars, schema>>

\* The session up to a stop() or disconnect() of the communicator, and the steps of
\* the receive worker after it.
CancelNext ==
    \/ sock # TCPConnection_close /\ Next({1})
    \/ Comm_stop
    \/ Comm_disconnect
    \/ WorkerRecvClosed(1)
    \/ sock = TCPConnection_close /\ (WorkerTop(1) \/ WorkerStopRunning(1))

\* A thread that can take a step of its own code is scheduled sooner or later; nothing
\* obliges the platform to end a receive on a socket closed under it.
WorkerFairness ==
    /\ WF_vars(WorkerTop(1))
    /\ WF_vars(WorkerRecvData(1))
    /\ WF_vars(WorkerRecvDisconnected(1))
    /\ WF_vars(WorkerStopRunning(1))

SpecCancel == Init /\ [][CancelNext]_vars /\ WorkerFairness

\* C36: after Communicator.stop() or disconnect() the receive pending in the worker is
\* unblocked and the worker thread eventually ends.
CancelEndsWorker == (sock = TCPConnection_close) ~> (wpc[1] = "none")

\* ------------------------------------------------------------------ episode sequencing
\* The agents episode_started is called on: each agent of a list, the one agent
\* otherwise (written 0 for a MultiLearner).
EpisodeAgents(d) ==
    IF d.kind = "single" THEN {1} ELSE IF d.kind = "list" THEN 1..d.num_agents ELSE {0}

\* The loop condition of _run is evaluated in this step.
LoopTested == run.rpc = "loop" /\ run'.rpc \in {"reset", "returned"}

\* C37: play(num_episodes) starts an episode exactly while fewer than num_episodes have
\* been started, so that a play() that leaves its loop has started exactly num_episodes;
\* train() calls do_start_episode(n) with n one more than the episodes started and starts
\* episode n exactly when the answer is true; an episode is started only from the loop
\* test, which is reached at the start with no episode counted or after the episode
\* before has ended for every agent, and it is numbered one more than the one before;
\* episode_started(n) is called only by initialize_episode after reset() has returned,
\* with the number of the episode, once for each agent.
EpisodeSequencing ==
    [][ /\ run'.episode # run.episode =>
              /\ LoopTested /\ run'.rpc = "reset"
              /\ run'.episode = run.episode + 1
        /\ (run'.rpc = "loop" /\ run.rpc # "loop") =>
              \/ run.rpc = "select" /\ run.episode = 0
              \/ run.rpc = "tick" /\ ~is_episode_running(dist)
        /\ (LoopTested /\ run.mode = "Playing") =>
              /\ calls' = <<>>
              /\ run'.rpc = "reset" <=> run.episode < MaxEpisodes
        /\ (run'.mode = "Playing" /\ run'.rpc = "returned" /\ run'.ended_by = "none") =>
              run'.episode = MaxEpisodes
        /\ (LoopTested /\ run.mode = "Training") =>
              /\ Len(calls') = 1
              /\ calls'[1].call = "do_start_episode"
              /\ calls'[1].episode = run.episode + 1
              /\ run'.rpc = "reset" <=> calls'[1].answer
        /\ (calls' # calls /\ \E k \in 1..Len(calls') : calls'[k].call = "episode_started") =>
              /\ run.rpc = "initialize_episode"
              /\ result = <<"reset", "ok">>
              /\ run.episode >= 1
        /\ (run.rpc = "initialize_episode" /\ run'.rpc = "tick") =>
              \A a \in EpisodeAgents(dist) :
                 \E k \in 1..Len(calls') :
                    /\ calls'[k] = episode_started(a, run.episode)
                    /\ \A j \in 1..Len(calls') :
                          (calls'[j].call = "episode_started" /\ calls'[j].agent = a) => j = k
      ]_vars

\* A training of two agents has left its loop after two episodes: do_start_episode(3)
\* answered false.
EpisodeSequencingWitness ==
    /\ run.mode = "Training"
    /\ run.rpc = "returned"
    /\ run.ended_by = "none"
    /\ run.episode = 2
    /\ dist.kind = "list" /\ dist.num_agents = 2
    /\ calls = <<do_start_episode(3, FALSE)>>

\* ------------------------------------------------------------------ one receive worker
\* The worker threads inside the receive loop: in its body, or at a loop test that will
\* let them in again.
LiveWorkers ==
    {w \in Workers : wpc[w] \in {"recv", "except"} \/ (wpc[w] = "top" /\ cRunning)}

\* C38: at any time at most one receive-worker thread is executing the receive loop of
\* the communicator.
AtMostOneWorker == Cardinality(LiveWorkers) <= 1

\* ------------------------------------------------------------------ outgoing messages
\* _run has passed from one position to the other with a call of the environment that
\* wrote a message to the transport.
SentByRun(from, to) == run.rpc = from /\ run'.rpc = to /\ outbox' # <<>>

\* C39: the messages _run sends have the shape connect (start action*)*: the connect
\* message is the first one; a start message follows the connect message, a start or an
\* action message, and is sent only once the manifest has been received; an action
\* message follows a start or an action message of the episode and is sent only when
\* the call before it (reset() or act()) has received a state batch, which is installed
\* and ready; between two consecutive messages of an episode the driver has taken at
\* least one batch from the environment; and _run sends nothing else.
OutgoingShape ==
    [][ /\ SentByRun("start", "connect") =>
              /\ outbox' = <<connect_message>>
              /\ hist.last_sent = "none"
        /\ SentByRun("reset", "reset_wait") =>
              /\ Len(outbox') = 1 /\ outbox'[1].type = "start"
              /\ hist.last_sent \in {"connect", "start", "action"}
              /\ eConnected /\ manifest # "None"
              /\ hist.last_sent # "connect" => run.tick > run.sent_tick
        /\ SentByRun("act", "act_wait") =>
              /\ Len(outbox') = 1 /\ outbox'[1].type = "action"
              /\ hist.last_sent \in {"start", "action"}
              /\ hist.installed /\ statesReady /\ states # "None"
              /\ run.tick > run.sent_tick
        /\ (run.rpc \in InTry \cup {"start"} /\ run'.rpc \in InTry
               /\ (outbox' # outbox \/ hist'.last_sent # hist.last_sent)) =>
              \/ SentByRun("start", "connect")
              \/ SentByRun("reset", "reset_wait")
              \/ SentByRun("act", "act_wait")
              \/ outbox' = <<>>
      ]_vars

\* The second episode of a run has begun and its first action has been sent: connect,
\* start, start, action, or with actions in the first episode as well.
OutgoingShapeWitness ==
    /\ run.rpc = "act_wait"
    /\ run.episode = 2
    /\ hist.last_sent = "action"
    /\ outbox # <<>>

\* ------------------------------------------------------------------ state and disconnected in one drain
\* C40: a drain that returns both a state message and a disconnected message, in either
\* order, ends the operation with Disconnected, and the batch of that drain is not
\* installed: _states and _states_ready are what they were before the drain.
StateWithDisconnected ==
    [][ ( /\ DrainReturns
          /\ StateMessages(Drained) # {}
          /\ DISCONNECTED_MESSAGE_JSON \in Elems(Drained) ) =>
            /\ pc' = "idle"
            /\ result' = <<pc, "Disconnected">>
            /\ states' = states
            /\ statesReady' = statesReady
      ]_vars

\* The same for the drains that hold nothing but state, manifest and disconnected
\* messages.
StateWithDisconnectedHandled ==
    [][ ( /\ DrainReturns
          /\ StateMessages(Drained) # {}
          /\ DISCONNECTED_MESSAGE_JSON \in Elems(Drained)
          /\ \A i \in 1..Len(Drained) : message_type(Drained[i]) \in HandledTags ) =>
            /\ pc' = "idle"
            /\ result' = <<pc, "Disconnected">>
            /\ states' = states
            /\ statesReady' = statesReady
      ]_vars

====
